---- MODULE Spec2Model ----
(***************************************************************************)
(* Model of ag-botkit: the execution engine with its order tracker (OMS),  *)
(* the policy risk engine, the fill arithmetic of an order, the            *)
(* multi-market strategy coordinator, the locks of the engine operations,  *)
(* the venue rate limiter, the strategy context and the backtest engine.   *)
(*                                                                         *)
(* Quantities that are f64 in the source are integers here: sizes count    *)
(* units of 0.01, prices units of 0.0001.  With integer quantities the     *)
(* test |a - b| < f64::EPSILON is the test a = b.                          *)
(***************************************************************************)
EXTENDS Integers, Sequences, FiniteSets, TLC

\* ------------------------------------------------------------------ bounds
MaxOrders == 1
MaxTasks == 2
MaxFilled == 2
BurstSize == 1
MaxRules == 2
MaxFills == 3
MaxStrategies == 2
MaxCallers == 2
MaxRps == 2
MaxBurst == 2
TicksPerToken == 2
MaxCtxCalls == 4
MaxTicks == 2
MaxNow == 2
MaxRuns == 2

OrderIds == 1..MaxOrders
Tasks == 1..MaxTasks

\* --------------------------------------------------------- value types
Abs(x) == IF x < 0 THEN -x ELSE x

None == << >>
Some(x) == <<x>>

Markets == {"m1"}
RegisteredVenues == {"v1"}

OrderStatus ==
    {"Pending", "Submitting", "Working", "PartiallyFilled", "Filled",
     "Cancelling", "Cancelled", "Rejected", "Expired"}

TerminalStatus == {"Filled", "Cancelled", "Rejected", "Expired"}

\* Order::new: a fresh order is Pending with nothing filled.
NewOrder(id, venue, market, side, order_type, price, size) ==
    [id |-> id, venue |-> venue, market |-> market, side |-> side,
     order_type |-> order_type, price |-> price, size |-> size,
     status |-> "Pending", filled_size |-> 0]

\* is_terminal with Expired forgotten
is_terminal_NoExpired(order) ==
    order.status \in {"Filled", "Cancelled", "Rejected"}

is_terminal(order) == order.status \in TerminalStatus

is_active(order) == order.status \in {"Working", "PartiallyFilled"}

\* Order::update_status: the status is overwritten, whatever it was.
OrderUpdateStatus(order, status) == [order EXCEPT !.status = status]

\* Order::record_fill: add the fill, then derive the status from the total.
OrderRecordFill(order, fill_size) ==
    LET filled == order.filled_size + fill_size
    IN  [order EXCEPT !.filled_size = filled,
                      !.status = IF Abs(filled - order.size) < 1
                                 THEN "Filled" ELSE "PartiallyFilled"]

\* ----------------------------------------------------------- validator
MinSize == 1
MaxSize == 100000000
MinPrice == 1
MaxPrice == 10000

\* f64::NAN, which an f64 size or price may also be: a value apart from
\* every quantity of the model.  Every ordered comparison with it is false.
NaN == -1000000000
Lt(a, b) == a # NaN /\ b # NaN /\ a < b
Gt(a, b) == a # NaN /\ b # NaN /\ a > b
Le(a, b) == a # NaN /\ b # NaN /\ a <= b

\* OrderValidator::validate: "Ok" or the ValidationError.
Validate(order) ==
    IF Lt(order.size, MinSize) THEN "ValidationError"
    ELSE IF Gt(order.size, MaxSize) THEN "ValidationError"
    ELSE IF Le(order.size, 0) THEN "ValidationError"
    ELSE IF order.order_type \in {"Limit", "PostOnly"}
              /\ (\/ order.price = None
                  \/ Lt(order.price[1], MinPrice)
                  \/ Gt(order.price[1], MaxPrice)
                  \/ Le(order.price[1], 0)) THEN "ValidationError"
    ELSE IF order.order_type = "Market" /\ order.price # None
         THEN "ValidationError"
    ELSE IF order.market = "" THEN "ValidationError"
    ELSE IF order.venue = "" THEN "ValidationError"
    ELSE "Ok"

\* ---------------------------------------------------------- risk engine
PositionLimit(market_id, max_size) ==
    [type |-> "PositionLimit", market_id |-> market_id, max |-> max_size,
     enabled |-> FALSE]
InventoryLimit(max_value_usd) ==
    [type |-> "InventoryLimit", market_id |-> None, max |-> max_value_usd,
     enabled |-> FALSE]
KillSwitchRule(enabled) ==
    [type |-> "KillSwitch", market_id |-> None, max |-> 0,
     enabled |-> enabled]

\* A violation message, by the values the source formats into it.
Violation(policy, market, value, max) ==
    [policy |-> policy, market |-> market, value |-> value, max |-> max]

KillSwitchActiveMsg == Violation("KillSwitch (active)", None, 0, 0)

\* PolicyRule::applies_to_market
applies_to_market(policy, market_id) ==
    IF policy.type = "PositionLimit" /\ policy.market_id # None
    THEN policy.market_id[1] = market_id
    ELSE TRUE

\* evaluate_policy with the limits exclusive (>= for >)
evaluate_policy_Inclusive(policy, ctx) ==
    IF policy.type = "PositionLimit"
    THEN LET new_position == ctx.current_position + ctx.proposed_size
         IN  IF Abs(new_position) >= policy.max
             THEN Some([policy |-> "PositionLimit", market |-> policy.market_id,
                        value |-> Abs(new_position), max |-> policy.max])
             ELSE None
    ELSE IF policy.type = "InventoryLimit"
    THEN IF ctx.inventory_value_usd >= policy.max
         THEN Some([policy |-> "InventoryLimit", market |-> None,
                    value |-> ctx.inventory_value_usd, max |-> policy.max])
         ELSE None
    ELSE IF policy.enabled
         THEN Some([policy |-> "KillSwitch: enabled in policy",
                    market |-> None, value |-> 0, max |-> 0])
         ELSE None

\* RiskEngine::evaluate_policy: Some(violation) or None.
evaluate_policy(policy, ctx) ==
    IF policy.type = "PositionLimit"
    THEN LET new_position == ctx.current_position + ctx.proposed_size
         IN  IF Abs(new_position) > policy.max
             THEN Some(Violation("PositionLimit", policy.market_id,
                                 Abs(new_position), policy.max))
             ELSE None
    ELSE IF policy.type = "InventoryLimit"
    THEN IF ctx.inventory_value_usd > policy.max
         THEN Some(Violation("InventoryLimit", None,
                             ctx.inventory_value_usd, policy.max))
         ELSE None
    ELSE IF policy.enabled
         THEN Some(Violation("KillSwitch: enabled in policy", None, 0, 0))
         ELSE None

RiskDecisionAllow == [allowed |-> TRUE, violated_policies |-> << >>]
RiskDecisionReject(violated) ==
    [allowed |-> FALSE, violated_policies |-> violated]

\* The rule loop of RiskEngine::evaluate, from rule i on.
RECURSIVE EvaluateRules(_, _, _, _)
EvaluateRules(rules, ctx, i, violated) ==
    IF i > Len(rules) THEN violated
    ELSE IF ~applies_to_market(rules[i], ctx.market_id)
         THEN EvaluateRules(rules, ctx, i + 1, violated)
         ELSE EvaluateRules(rules, ctx, i + 1,
                            violated \o evaluate_policy(rules[i], ctx))

\* evaluate without the early return: the rules are evaluated as well
Evaluate_NoEarlyReturn(rules, kill_switch, ctx) ==
    LET violated == (IF kill_switch THEN <<KillSwitchActiveMsg>> ELSE << >>)
                        \o EvaluateRules(rules, ctx, 1, << >>)
    IN  IF violated = << >> THEN RiskDecisionAllow
        ELSE RiskDecisionReject(violated)

\* RiskEngine::evaluate
Evaluate(rules, kill_switch, ctx) ==
    IF kill_switch THEN RiskDecisionReject(<<KillSwitchActiveMsg>>)
    ELSE LET violated == EvaluateRules(rules, ctx, 1, << >>)
         IN  IF violated = << >> THEN RiskDecisionAllow
             ELSE RiskDecisionReject(violated)


\* ------------------------------------------------------------ the state
VARIABLES
    catalog,            \* the Order values callers hold, by id
    config,             \* ExecutionEngineConfig
    policies,           \* RiskEngine.config.policies
    kill_switch_active, \* RiskEngine.kill_switch_active
    orders,             \* OrderTracker.orders
    fills,              \* OrderTracker.fills
    positions,          \* ExecutionEngine.positions
    tokens,             \* tokens left in the rate limiter of venue v1
    adapter_lock,       \* the task holding the mutex of the adapter of v1
    task,               \* the engine and tracker calls in progress
    ks_last,            \* the last of trigger_kill_switch / reset_kill_switch
    risk_eval,          \* the last RiskEngine::evaluate call and its result
    filled_order,       \* an Order taking fills by Order::record_fill
    order_fills,        \* the (size, price) pairs that order was given
    strategies,         \* MultiMarketCoordinator.strategies
    contexts,           \* MultiMarketCoordinator.contexts
    market_subscriptions, \* MultiMarketCoordinator.market_subscriptions
    strategy_markets,   \* MultiMarketCoordinator.strategy_markets
    coord_call,         \* the coordinator calls of each caller
    next_strategy,      \* the number of strategy objects built so far
    shut_down,          \* the strategy objects whose shutdown was invoked
    lock_call,          \* the engine operations taking and dropping locks
    lim_config,         \* RateLimiter: venue_id, requests_per_second,
                        \*   burst_size
    lim_debt,           \* how far the limiter's arrival time is ahead of now
    lim_window,         \* the permits granted at each instant of the last
                        \*   second
    lim_call,           \* the check / try_check calls of each task
    lim_queue,          \* the tasks waiting in check, in order of arrival
    lim_fresh,          \* the try_check results since new, while no time
                        \*   has passed
    ctx_risk,           \* the RiskEngine a StrategyContext was given
    ctx_positions,      \* StrategyContext.positions
    ctx_orders,         \* StrategyContext.orders
    ctx_exec,           \* the MockExecutionEngine of the context
    ctx_last,           \* the last call on the context and its result
    ctx_calls,          \* the number of calls made on the context
    bt_config,          \* BacktestConfig
    bt_ticks,           \* the historical ticks given to run_backtest
    bt_plan,            \* the strategy: the orders it quotes on every tick
    bt_now,             \* the wall clock, which Utc::now() reads
    bt_run,             \* the run_backtest call in progress
    bt_results,         \* the results of the runs that returned
    bt_fails,           \* the strategy: the callback that returns Err
    bt_trace,           \* the calls the last run made, in order
    val_order,          \* the Order given to OrderValidator::validate
    val_result,         \* what validate returned
    sim_order,          \* the Order given to FillSimulator::simulate_fill
    sim_tick,           \* the MarketTick given to it
    sim_result,         \* the Option<Fill> it returned, with the random draw
    mm_strategy,        \* MarketMakerStrategy: market_id, config, last_quote_time
    mm_now,             \* Utc::now() in milliseconds
    st_buffer,          \* StorageEngine::buffer, the metrics waiting for a flush
    st_db,              \* the rows of the metrics table
    st_accepted,        \* the metrics for which buffer_metric returned Ok
    st_flush,           \* the batch flush_buffer took and is inserting
    st_result           \* the result of the last call

\* the state of the execution engine and of the risk engine
execVars == <<catalog, config, policies, kill_switch_active, orders, fills,
              positions, tokens, adapter_lock, task, ks_last, risk_eval>>
\* the state of the order of the fill arithmetic
orderVars == <<filled_order, order_fills>>
\* the state of the strategy coordinator
coordVars == <<strategies, contexts, market_subscriptions, strategy_markets,
               coord_call, next_strategy, shut_down>>
\* the locks of the execution engine as its operations take them
lockVars == <<lock_call>>
\* the state of the components that are modelled each on its own
\* the state of a RateLimiter and of its callers
limVars == <<lim_config, lim_debt, lim_window, lim_call, lim_queue, lim_fresh>>
\* the state of a StrategyContext, its risk engine and its mock engine
ctxVars == <<ctx_risk, ctx_positions, ctx_orders, ctx_exec, ctx_last,
             ctx_calls>>
\* the state of a BacktestEngine and of its runs
btVars == <<bt_config, bt_ticks, bt_plan, bt_now, bt_run, bt_results,
            bt_fails, bt_trace>>
\* the state of the components added later
\* the order given to OrderValidator::validate and its answer
valVars == <<val_order, val_result>>
\* a call of FillSimulator::simulate_fill on its own
simVars == <<sim_order, sim_tick, sim_result>>
\* a MarketMakerStrategy and the clock it reads
mmVars == <<mm_strategy, mm_now>>
\* the storage engine's write-behind buffer
stVars == <<st_buffer, st_db, st_accepted, st_flush, st_result>>
laterVars == <<valVars, simVars, mmVars, stVars>>
moreVars == <<lockVars, limVars, ctxVars, btVars, laterVars>>
\* what the execution engine and the risk engine never touch
otherVars == <<orderVars, coordVars, moreVars>>

vars == <<execVars, orderVars, coordVars, moreVars>>

\* HashMap operations
Insert(map, key, value) ==
    [k \in (DOMAIN map) \cup {key} |-> IF k = key THEN value ELSE map[k]]
Remove(map, keys) == [k \in (DOMAIN map) \ keys |-> map[k]]
GetOr(map, key, default) == IF key \in DOMAIN map THEN map[key] ELSE default

RECURSIVE SumSeq(_)
SumSeq(s) == IF s = << >> THEN 0 ELSE s[1] + SumSeq(Tail(s))

RECURSIVE SumValues(_)
SumValues(map) ==
    IF DOMAIN map = {} THEN 0
    ELSE LET k == CHOOSE x \in DOMAIN map : TRUE
         IN  map[k] + SumValues(Remove(map, {k}))

\* The orders callers build with Order::new.
OrderTemplates ==
    { [venue |-> "v1", side |-> "Buy", order_type |-> "Limit",
       price |-> Some(5200), size |-> 2],
      [venue |-> "v1", side |-> "Sell", order_type |-> "Limit",
       price |-> Some(5200), size |-> 1],
      [venue |-> "v1", side |-> "Buy", order_type |-> "Limit",
       price |-> Some(5200), size |-> 0],
      [venue |-> "v2", side |-> "Buy", order_type |-> "Limit",
       price |-> Some(5200), size |-> 1] }

Catalogs ==
    { [id \in OrderIds |->
          NewOrder(id, c[id].venue, "m1", c[id].side, c[id].order_type,
                   c[id].price, c[id].size)] :
      c \in [OrderIds -> OrderTemplates] }

\* an order that passes validation, for the engine without risk checks
PlainOrder(order) == order.venue = "v1" /\ order.side = "Buy" /\ order.size = 2

FillSizes == {1, 2}

\* The risk rules of the engine under test.
MaxPosition == 2
EnginePolicies == <<PositionLimit(None, MaxPosition)>>

\* ExecutionEngineConfig::default(), and the configuration of the tests
DefaultConfig == [enable_validation |-> TRUE, enable_risk_checks |-> TRUE]
TestConfig == [enable_validation |-> TRUE, enable_risk_checks |-> FALSE]
Configs == {DefaultConfig, TestConfig}

\* What an adapter may answer.
PlaceStatuses == {"Working", "Filled", "Rejected"}
VenueStatuses == {"Working", "PartiallyFilled", "Filled", "Cancelled"}
AdapterError == <<"Err", "VenueError">>

IdleTask ==
    [op |-> "idle", pc |-> "idle", id |-> 0, order |-> << >>, size |-> 0,
     trace |-> << >>, result |-> << >>]

RiskContexts ==
    [market_id : {"m1", "m2"}, current_position : {-2, 0, 1},
     proposed_size : {-1, 1, 2}, inventory_value_usd : {0, 3}]

NoEval ==
    [done |-> FALSE, ks |-> "none", decision |-> RiskDecisionAllow,
     ctx |-> [market_id |-> "m1", current_position |-> 0,
              proposed_size |-> 1, inventory_value_usd |-> 0]]

\* no order is taking fills outside the tracker
OrderIdle ==
    /\ filled_order = << >>
    /\ order_fills = << >>

\* MultiMarketCoordinator::new, and nobody calling it
CoordIdle ==
    /\ strategies = << >>
    /\ contexts = << >>
    /\ market_subscriptions = << >>
    /\ strategy_markets = << >>
    /\ coord_call = << >>
    /\ next_strategy = 0
    /\ shut_down = {}

\* no engine operation is at its locks
LockIdle == lock_call = << >>

\* no RateLimiter under observation
LimIdle ==
    /\ lim_config = << >>
    /\ lim_debt = 0
    /\ lim_window = << >>
    /\ lim_call = << >>
    /\ lim_queue = << >>
    /\ lim_fresh = << >>

\* no StrategyContext under observation
CtxIdle ==
    /\ ctx_risk = << >>
    /\ ctx_positions = << >>
    /\ ctx_orders = << >>
    /\ ctx_exec = << >>
    /\ ctx_last = << >>
    /\ ctx_calls = 0

\* no BacktestEngine under observation
BtIdle ==
    /\ bt_config = << >>
    /\ bt_ticks = << >>
    /\ bt_plan = << >>
    /\ bt_now = 0
    /\ bt_run = << >>
    /\ bt_results = << >>
    /\ bt_fails = << >>
    /\ bt_trace = << >>

ValIdle ==
    /\ val_order = << >>
    /\ val_result = << >>

SimIdle ==
    /\ sim_order = << >>
    /\ sim_tick = << >>
    /\ sim_result = << >>

MmIdle ==
    /\ mm_strategy = << >>
    /\ mm_now = 0

StIdle ==
    /\ st_buffer = << >>
    /\ st_db = {}
    /\ st_accepted = {}
    /\ st_flush = << >>
    /\ st_result = <<"new">>

LaterIdle ==
    /\ ValIdle
    /\ SimIdle
    /\ MmIdle
    /\ StIdle

MoreIdle ==
    /\ LockIdle
    /\ LimIdle
    /\ CtxIdle
    /\ BtIdle
    /\ LaterIdle

ExecInit ==
    /\ OrderIdle
    /\ CoordIdle
    /\ MoreIdle
    /\ catalog \in Catalogs
    /\ config \in Configs
    /\ config = DefaultConfig \/ \A id \in OrderIds : PlainOrder(catalog[id])
    /\ policies = EnginePolicies
    /\ kill_switch_active = FALSE
    /\ orders = << >>
    /\ fills = << >>
    /\ positions = << >>
    /\ tokens = BurstSize
    /\ adapter_lock = 0
    /\ task = [t \in Tasks |-> IdleTask]
    /\ ks_last = "none"
    /\ risk_eval = NoEval

\* no execution engine and no risk engine at work
EngineIdle ==
    /\ catalog = << >>
    /\ config = DefaultConfig
    /\ policies = << >>
    /\ kill_switch_active = FALSE
    /\ orders = << >>
    /\ fills = << >>
    /\ positions = << >>
    /\ tokens = BurstSize
    /\ adapter_lock = 0
    /\ task = << >>
    /\ ks_last = "none"
    /\ risk_eval = NoEval

Free(t) == task[t].pc \in {"idle", "done"}

Begin(t, op, pc, id, order, size) ==
    task' = [task EXCEPT ![t] =
                [op |-> op, pc |-> pc, id |-> id, order |-> order,
                 size |-> size, trace |-> << >>, result |-> << >>]]

Step(t, pc, event) ==
    task' = [task EXCEPT ![t].pc = pc,
                         ![t].trace = Append(task[t].trace, event)]

Return(t, event, result) ==
    task' = [task EXCEPT ![t].pc = "done", ![t].order = << >>, ![t].size = 0,
                         ![t].trace = task[t].trace \o event,
                         ![t].result = result]

\* OrderTracker::update_status on the map: the new map, or the map itself
\* when the order is not there (the caller then gets OrderNotFound).
TrackerUpdateStatus(map, id, status) ==
    IF id \in DOMAIN map
    THEN [map EXCEPT ![id] = OrderUpdateStatus(map[id], status)]
    ELSE map


\* ------------------------------------------- ExecutionEngine::submit_order
engineVars == <<catalog, config, policies, ks_last, risk_eval, otherVars>>

SubmitBegin(t, id) ==
    /\ Free(t)
    /\ Begin(t, "submit_order", "validate", id, catalog[id], 0)
    /\ UNCHANGED <<engineVars, kill_switch_active, orders, fills, positions,
                   tokens, adapter_lock>>

\* step 1: validate
SubmitValidate(t) ==
    /\ task[t].op = "submit_order" /\ task[t].pc = "validate"
    /\ IF config.enable_validation
       THEN IF Validate(task[t].order) = "Ok"
            THEN Step(t, "risk", "validated")
            ELSE Return(t, << >>, <<"Err", "ValidationError">>)
       ELSE task' = [task EXCEPT ![t].pc = "risk"]
    /\ UNCHANGED <<engineVars, kill_switch_active, orders, fills, positions,
                   tokens, adapter_lock>>

\* The RiskContext submit_order builds from the position ledger.
SubmitRiskContext(order) ==
    [market_id |-> order.market,
     current_position |-> GetOr(positions, order.market, 0),
     proposed_size |-> IF order.side = "Buy" THEN order.size
                       ELSE -order.size,
     inventory_value_usd |-> SumValues(positions)]

\* submit_order tracking the order before the risk check decides
SubmitRisk_TrackFirst(t) ==
    /\ task[t].op = "submit_order" /\ task[t].pc = "risk"
    /\ IF config.enable_risk_checks
       THEN LET decision == Evaluate(policies, kill_switch_active,
                                     SubmitRiskContext(task[t].order))
            IN  /\ orders' = Insert(orders, task[t].id, task[t].order)
                /\ IF decision.allowed
                   THEN Step(t, "lookup", "risk_allowed")
                   ELSE Return(t, << >>, <<"Err", "RiskRejected",
                                           decision.violated_policies>>)
       ELSE /\ task' = [task EXCEPT ![t].pc = "lookup"]
            /\ UNCHANGED orders
    /\ UNCHANGED <<engineVars, kill_switch_active, fills, positions, tokens,
                   adapter_lock>>

\* step 2: pre-trade risk check
SubmitRisk(t) ==
    /\ task[t].op = "submit_order" /\ task[t].pc = "risk"
    /\ IF config.enable_risk_checks
       THEN LET decision == Evaluate(policies, kill_switch_active,
                                     SubmitRiskContext(task[t].order))
            IN  IF decision.allowed
                THEN Step(t, "lookup", "risk_allowed")
                ELSE Return(t, << >>, <<"Err", "RiskRejected",
                                        decision.violated_policies>>)
       ELSE task' = [task EXCEPT ![t].pc = "lookup"]
    /\ UNCHANGED <<engineVars, kill_switch_active, orders, fills, positions,
                   tokens, adapter_lock>>

\* submit_order going from the adapter lookup straight to tracking
SubmitLookup_SkipRateLimit(t) ==
    /\ task[t].op = "submit_order" /\ task[t].pc = "lookup"
    /\ IF task[t].order.venue \in RegisteredVenues
       THEN Step(t, "track", "adapter_found")
       ELSE Return(t, << >>, <<"Err", "VenueNotSupported">>)
    /\ UNCHANGED <<engineVars, kill_switch_active, orders, fills, positions,
                   tokens, adapter_lock>>

\* step 3: find the adapter of the order's venue
SubmitLookup(t) ==
    /\ task[t].op = "submit_order" /\ task[t].pc = "lookup"
    /\ IF task[t].order.venue \in RegisteredVenues
       THEN Step(t, "ratelimit", "adapter_found")
       ELSE Return(t, << >>, <<"Err", "VenueNotSupported">>)
    /\ UNCHANGED <<engineVars, kill_switch_active, orders, fills, positions,
                   tokens, adapter_lock>>

\* step 4: RateLimiter::check waits until a token is there and takes it
SubmitRateLimit(t) ==
    /\ task[t].op = "submit_order" /\ task[t].pc = "ratelimit"
    /\ tokens > 0
    /\ tokens' = tokens - 1
    /\ Step(t, "track", "token")
    /\ UNCHANGED <<engineVars, kill_switch_active, orders, fills, positions,
                   adapter_lock>>

\* submit_order looking at the kill switch once more before it tracks
SubmitTrack_RecheckSwitch(t) ==
    /\ task[t].op = "submit_order" /\ task[t].pc = "track"
    /\ IF kill_switch_active
       THEN /\ Return(t, << >>, <<"Err", "RiskRejected",
                                  <<KillSwitchActiveMsg>>>>)
            /\ UNCHANGED orders
       ELSE LET order == OrderUpdateStatus(task[t].order, "Submitting")
            IN  /\ orders' = Insert(orders, order.id, order)
                /\ task' = [task EXCEPT
                               ![t].pc = "place", ![t].order = order,
                               ![t].trace = Append(task[t].trace, "tracked")]
    /\ UNCHANGED <<engineVars, kill_switch_active, fills, positions, tokens,
                   adapter_lock>>

\* step 5: the order becomes Submitting and is tracked
SubmitTrack(t) ==
    /\ task[t].op = "submit_order" /\ task[t].pc = "track"
    /\ LET order == OrderUpdateStatus(task[t].order, "Submitting")
       IN  /\ orders' = Insert(orders, order.id, order)
           /\ task' = [task EXCEPT ![t].pc = "place", ![t].order = order,
                          ![t].trace = Append(task[t].trace, "tracked")]
    /\ UNCHANGED <<engineVars, kill_switch_active, fills, positions, tokens,
                   adapter_lock>>

\* submit_order calling place_order without taking the adapter's mutex
SubmitPlace_NoLock(t) ==
    /\ task[t].op = "submit_order" /\ task[t].pc = "place"
    /\ adapter_lock' = t
    /\ Step(t, "ack", "place_order")
    /\ UNCHANGED <<engineVars, kill_switch_active, orders, fills, positions,
                   tokens>>

\* step 6: lock the adapter and call place_order
SubmitPlace(t) ==
    /\ task[t].op = "submit_order" /\ task[t].pc = "place"
    /\ adapter_lock = 0
    /\ adapter_lock' = t
    /\ Step(t, "ack", "place_order")
    /\ UNCHANGED <<engineVars, kill_switch_active, orders, fills, positions,
                   tokens>>

\* submit_order returning the ack without storing its status
SubmitAck_StatusNotStored(t) ==
    /\ task[t].op = "submit_order" /\ task[t].pc = "ack"
    /\ adapter_lock' = 0
    /\ \/ Return(t, << >>, AdapterError)
       \/ \E status \in PlaceStatuses :
             Return(t, << >>, <<"Ok", task[t].id, status>>)
    /\ UNCHANGED <<engineVars, kill_switch_active, orders, fills, positions,
                   tokens>>

\* submit_order marking the order Rejected when place_order fails
SubmitAck_RejectOnError(t) ==
    /\ task[t].op = "submit_order" /\ task[t].pc = "ack"
    /\ adapter_lock' = 0
    /\ \/ /\ Return(t, << >>, AdapterError)
          /\ orders' = TrackerUpdateStatus(orders, task[t].id, "Rejected")
       \/ \E status \in PlaceStatuses :
             IF task[t].id \in DOMAIN orders
             THEN /\ orders' = TrackerUpdateStatus(orders, task[t].id, status)
                  /\ Return(t, << >>, <<"Ok", task[t].id, status>>)
             ELSE /\ Return(t, << >>, <<"Err", "OrderNotFound">>)
                  /\ UNCHANGED orders
    /\ UNCHANGED <<engineVars, kill_switch_active, fills, positions, tokens>>

\* place_order answers: an error is returned as it is, an ack sets the
\* tracked status and is returned
SubmitAck(t) ==
    /\ task[t].op = "submit_order" /\ task[t].pc = "ack"
    /\ adapter_lock' = 0
    /\ \/ /\ Return(t, << >>, AdapterError)
          /\ UNCHANGED orders
       \/ \E status \in PlaceStatuses :
             IF task[t].id \in DOMAIN orders
             THEN /\ orders' = TrackerUpdateStatus(orders, task[t].id, status)
                  /\ Return(t, << >>, <<"Ok", task[t].id, status>>)
             ELSE /\ Return(t, << >>, <<"Err", "OrderNotFound">>)
                  /\ UNCHANGED orders
    /\ UNCHANGED <<engineVars, kill_switch_active, fills, positions, tokens>>

\* ------------------------------------------- ExecutionEngine::cancel_order
CancelBegin(t, id) ==
    /\ Free(t)
    /\ Begin(t, "cancel_order", "get", id, << >>, 0)
    /\ UNCHANGED <<engineVars, kill_switch_active, orders, fills, positions,
                   tokens, adapter_lock>>

\* get_order, the terminal check and the adapter lookup
CancelGet(t) ==
    /\ task[t].op = "cancel_order" /\ task[t].pc = "get"
    /\ IF task[t].id \notin DOMAIN orders
       THEN Return(t, << >>, <<"Err", "OrderNotFound">>)
       ELSE LET order == orders[task[t].id]
            IN  IF is_terminal(order)
                THEN Return(t, << >>, <<"Err", "InvalidOrderState",
                                        order.status, "cancel">>)
                ELSE IF order.venue \notin RegisteredVenues
                THEN Return(t, << >>, <<"Err", "VenueNotSupported">>)
                ELSE task' = [task EXCEPT ![t].pc = "ratelimit"]
    /\ UNCHANGED <<engineVars, kill_switch_active, orders, fills, positions,
                   tokens, adapter_lock>>

CancelRateLimit(t) ==
    /\ task[t].op = "cancel_order" /\ task[t].pc = "ratelimit"
    /\ tokens > 0
    /\ tokens' = tokens - 1
    /\ Step(t, "mark", "token")
    /\ UNCHANGED <<engineVars, kill_switch_active, orders, fills, positions,
                   adapter_lock>>

\* update_status(Cancelling)
CancelMark(t) ==
    /\ task[t].op = "cancel_order" /\ task[t].pc = "mark"
    /\ IF task[t].id \in DOMAIN orders
       THEN /\ orders' = TrackerUpdateStatus(orders, task[t].id, "Cancelling")
            /\ Step(t, "call", "cancelling")
       ELSE /\ Return(t, << >>, <<"Err", "OrderNotFound">>)
            /\ UNCHANGED orders
    /\ UNCHANGED <<engineVars, kill_switch_active, fills, positions, tokens,
                   adapter_lock>>

\* lock the adapter and call cancel_order
CancelCall(t) ==
    /\ task[t].op = "cancel_order" /\ task[t].pc = "call"
    /\ adapter_lock = 0
    /\ adapter_lock' = t
    /\ Step(t, "ack", "cancel_order")
    /\ UNCHANGED <<engineVars, kill_switch_active, orders, fills, positions,
                   tokens>>

\* cancel_order marking the order Cancelled whatever the ack says
CancelAck_IgnoreSuccess(t) ==
    /\ task[t].op = "cancel_order" /\ task[t].pc = "ack"
    /\ adapter_lock' = 0
    /\ \/ /\ Return(t, << >>, AdapterError)
          /\ UNCHANGED orders
       \/ \E success \in {"success", "failure"} :
             /\ orders' = TrackerUpdateStatus(orders, task[t].id, "Cancelled")
             /\ Return(t, <<"cancelled">>, <<"Ok", task[t].id, success>>)
    /\ UNCHANGED <<engineVars, kill_switch_active, fills, positions, tokens>>

\* cancel_order answers: only a successful ack makes the order Cancelled
CancelAck(t) ==
    /\ task[t].op = "cancel_order" /\ task[t].pc = "ack"
    /\ adapter_lock' = 0
    /\ \/ /\ Return(t, << >>, AdapterError)
          /\ UNCHANGED orders
       \/ /\ Return(t, << >>, <<"Ok", task[t].id, "failure">>)
          /\ UNCHANGED orders
       \/ IF task[t].id \in DOMAIN orders
          THEN /\ orders' = TrackerUpdateStatus(orders, task[t].id,
                                                "Cancelled")
               /\ Return(t, <<"cancelled">>, <<"Ok", task[t].id, "success">>)
          ELSE /\ Return(t, << >>, <<"Err", "OrderNotFound">>)
               /\ UNCHANGED orders
    /\ UNCHANGED <<engineVars, kill_switch_active, fills, positions, tokens>>

\* --------------------------------------------- ExecutionEngine::get_status
GetStatusBegin(t, id) ==
    /\ Free(t)
    /\ Begin(t, "get_status", "get", id, << >>, 0)
    /\ UNCHANGED <<engineVars, kill_switch_active, orders, fills, positions,
                   tokens, adapter_lock>>

\* get_status asking the venue whatever the cached status is
GetStatusGet_NoCache(t) ==
    /\ task[t].op = "get_status" /\ task[t].pc = "get"
    /\ IF task[t].id \notin DOMAIN orders
       THEN Return(t, << >>, <<"Err", "OrderNotFound">>)
       ELSE LET order == orders[task[t].id]
            IN  IF order.venue \notin RegisteredVenues
                THEN Return(t, << >>, <<"Err", "VenueNotSupported">>)
                ELSE task' = [task EXCEPT ![t].pc = "call"]
    /\ UNCHANGED <<engineVars, kill_switch_active, orders, fills, positions,
                   tokens, adapter_lock>>

\* get_order; a terminal order answers from the cache
GetStatusGet(t) ==
    /\ task[t].op = "get_status" /\ task[t].pc = "get"
    /\ IF task[t].id \notin DOMAIN orders
       THEN Return(t, << >>, <<"Err", "OrderNotFound">>)
       ELSE LET order == orders[task[t].id]
            IN  IF is_terminal(order)
                THEN Return(t, << >>, <<"Ok", task[t].id, order.status>>)
                ELSE IF order.venue \notin RegisteredVenues
                THEN Return(t, << >>, <<"Err", "VenueNotSupported">>)
                ELSE task' = [task EXCEPT ![t].pc = "call"]
    /\ UNCHANGED <<engineVars, kill_switch_active, orders, fills, positions,
                   tokens, adapter_lock>>

GetStatusCall(t) ==
    /\ task[t].op = "get_status" /\ task[t].pc = "call"
    /\ adapter_lock = 0
    /\ adapter_lock' = t
    /\ Step(t, "ack", "get_order_status")
    /\ UNCHANGED <<engineVars, kill_switch_active, orders, fills, positions,
                   tokens>>

\* get_order_status answers: the status is stored and returned
GetStatusAck(t) ==
    /\ task[t].op = "get_status" /\ task[t].pc = "ack"
    /\ adapter_lock' = 0
    /\ \/ /\ Return(t, << >>, AdapterError)
          /\ UNCHANGED orders
       \/ \E status \in VenueStatuses :
             IF task[t].id \in DOMAIN orders
             THEN /\ orders' = TrackerUpdateStatus(orders, task[t].id, status)
                  /\ Return(t, << >>, <<"Ok", task[t].id, status>>)
             ELSE /\ Return(t, << >>, <<"Err", "OrderNotFound">>)
                  /\ UNCHANGED orders
    /\ UNCHANGED <<engineVars, kill_switch_active, fills, positions, tokens>>


\* ------------- ExecutionEngine::record_fill over OrderTracker::record_fill
\* the sizes of the fills handed in for an order and not yet in its fill list
PendingFills(id) ==
    SumValues([t \in {u \in DOMAIN task : /\ task[u].op = "record_fill"
                                          /\ task[u].id = id
                                          /\ task[u].pc \in {"rf_order", "rf_fills"}}
                  |-> task[t].size])

RecordFillBegin(t, id, size) ==
    /\ Free(t)
    /\ SumSeq(GetOr(fills, id, << >>)) + PendingFills(id) + size <= MaxFilled
    /\ Begin(t, "record_fill", "rf_order", id, << >>, size)
    /\ UNCHANGED <<engineVars, kill_switch_active, orders, fills, positions,
                   tokens, adapter_lock>>

\* OrderTracker::record_fill, first lock scope: the order takes the fill
RecordFillOrder(t) ==
    /\ task[t].op = "record_fill" /\ task[t].pc = "rf_order"
    /\ IF task[t].id \in DOMAIN orders
       THEN /\ orders' = [orders EXCEPT ![task[t].id] =
                             OrderRecordFill(orders[task[t].id], task[t].size)]
            /\ Step(t, "rf_fills", "order_filled")
       ELSE /\ Return(t, << >>, <<"Err", "OrderNotFound">>)
            /\ UNCHANGED orders
    /\ UNCHANGED <<engineVars, kill_switch_active, fills, positions, tokens,
                   adapter_lock>>

\* OrderTracker::record_fill, second lock scope: the fill is stored
RecordFillFills(t) ==
    /\ task[t].op = "record_fill" /\ task[t].pc = "rf_fills"
    /\ fills' = Insert(fills, task[t].id,
                       Append(GetOr(fills, task[t].id, << >>), task[t].size))
    /\ Step(t, "rf_pos", "fill_stored")
    /\ UNCHANGED <<engineVars, kill_switch_active, orders, positions, tokens,
                   adapter_lock>>

\* record_fill adding the fill to the ledger whatever the side of the order
RecordFillPos_IgnoreSide(t) ==
    /\ task[t].op = "record_fill" /\ task[t].pc = "rf_pos"
    /\ IF task[t].id \in DOMAIN orders
       THEN LET order == orders[task[t].id]
            IN  /\ positions' =
                      Insert(positions, order.market,
                             GetOr(positions, order.market, 0) + task[t].size)
                /\ Return(t, <<"position">>, <<"Ok">>)
       ELSE /\ Return(t, << >>, <<"Err", "OrderNotFound">>)
            /\ UNCHANGED positions
    /\ UNCHANGED <<engineVars, kill_switch_active, orders, fills, tokens,
                   adapter_lock>>

\* ExecutionEngine::record_fill after the tracker: the ledger moves
RecordFillPos(t) ==
    /\ task[t].op = "record_fill" /\ task[t].pc = "rf_pos"
    /\ IF task[t].id \in DOMAIN orders
       THEN LET order == orders[task[t].id]
                position_delta == IF order.side = "Buy" THEN task[t].size
                                  ELSE -task[t].size
            IN  /\ positions' =
                      Insert(positions, order.market,
                             GetOr(positions, order.market, 0) + position_delta)
                /\ Return(t, <<"position">>, <<"Ok">>)
       ELSE /\ Return(t, << >>, <<"Err", "OrderNotFound">>)
            /\ UNCHANGED positions
    /\ UNCHANGED <<engineVars, kill_switch_active, orders, fills, tokens,
                   adapter_lock>>

\* ExecutionEngine::get_position: the ledger's entry, 0.0 when there is none
get_position(market_id) == GetOr(positions, market_id, 0)

\* ------------------------------------- OrderTracker, called directly
TrackOrder(id) ==
    /\ orders' = Insert(orders, id, catalog[id])
    /\ UNCHANGED <<engineVars, kill_switch_active, fills, positions, tokens,
                   adapter_lock, task>>

UpdateStatus(id, status) ==
    /\ id \in DOMAIN orders
    /\ orders' = TrackerUpdateStatus(orders, id, status)
    /\ UNCHANGED <<engineVars, kill_switch_active, fills, positions, tokens,
                   adapter_lock, task>>

\* ----------------------------------------------- rate limiter, kill switch
\* time passes and the bucket of the limiter refills
Refill ==
    /\ tokens < BurstSize
    /\ tokens' = tokens + 1
    /\ UNCHANGED <<engineVars, kill_switch_active, orders, fills, positions,
                   adapter_lock, task>>

TriggerKillSwitch ==
    /\ kill_switch_active' = TRUE
    /\ ks_last' = "trigger"
    /\ UNCHANGED <<catalog, config, policies, risk_eval, orders, fills,
                   positions, tokens, adapter_lock, task, otherVars>>

ResetKillSwitch ==
    /\ kill_switch_active' = FALSE
    /\ ks_last' = "reset"
    /\ UNCHANGED <<catalog, config, policies, risk_eval, orders, fills,
                   positions, tokens, adapter_lock, task, otherVars>>

\* ------------------------------------------- the execution engine at work
Next ==
    \/ \E t \in Tasks, id \in OrderIds : SubmitBegin(t, id)
    \/ \E t \in Tasks : SubmitValidate(t)
    \/ \E t \in Tasks : SubmitRisk(t)
    \/ \E t \in Tasks : SubmitLookup(t)
    \/ \E t \in Tasks : SubmitRateLimit(t)
    \/ \E t \in Tasks : SubmitTrack(t)
    \/ \E t \in Tasks : SubmitPlace(t)
    \/ \E t \in Tasks : SubmitAck(t)
    \/ \E t \in Tasks, id \in OrderIds : CancelBegin(t, id)
    \/ \E t \in Tasks : CancelGet(t)
    \/ \E t \in Tasks : CancelRateLimit(t)
    \/ \E t \in Tasks : CancelMark(t)
    \/ \E t \in Tasks : CancelCall(t)
    \/ \E t \in Tasks : CancelAck(t)
    \/ \E t \in Tasks, id \in OrderIds : GetStatusBegin(t, id)
    \/ \E t \in Tasks : GetStatusGet(t)
    \/ \E t \in Tasks : GetStatusCall(t)
    \/ \E t \in Tasks : GetStatusAck(t)
    \/ \E t \in Tasks, id \in OrderIds, size \in FillSizes :
          RecordFillBegin(t, id, size)
    \/ \E t \in Tasks : RecordFillOrder(t)
    \/ \E t \in Tasks : RecordFillFills(t)
    \/ \E t \in Tasks : RecordFillPos(t)
    \/ \E id \in OrderIds : TrackOrder(id)
    \/ \E id \in OrderIds, status \in OrderStatus : UpdateStatus(id, status)
    \/ Refill

Spec == ExecInit /\ [][Next]_vars

TypeOK ==
    /\ DOMAIN orders \subseteq OrderIds
    /\ \A id \in DOMAIN orders : orders[id].status \in OrderStatus
    /\ tokens \in 0..BurstSize
    /\ adapter_lock \in Tasks \cup {0}


\* ------------------------------------------------ the risk engine alone
\* The rule sets a policy document may hold.
Rules ==
    {PositionLimit(None, 2), PositionLimit(Some("m1"), 1), InventoryLimit(2),
     KillSwitchRule(TRUE), KillSwitchRule(FALSE)}

RECURSIVE SeqsUpTo(_, _)
SeqsUpTo(S, n) ==
    IF n = 0 THEN {<< >>}
    ELSE LET shorter == SeqsUpTo(S, n - 1)
         IN  shorter \cup {Append(q, x) : q \in shorter, x \in S}

RiskInit ==
    /\ MoreIdle
    /\ OrderIdle
    /\ CoordIdle
    /\ policies \in SeqsUpTo(Rules, MaxRules)
    /\ kill_switch_active = FALSE
    /\ ks_last = "none"
    /\ risk_eval = NoEval
    /\ catalog = << >>
    /\ config = DefaultConfig
    /\ orders = << >>
    /\ fills = << >>
    /\ positions = << >>
    /\ tokens = BurstSize
    /\ adapter_lock = 0
    /\ task = << >>

\* a caller evaluates a context; what it got is kept
RiskEvaluate(ctx) ==
    /\ risk_eval' = [done |-> TRUE, ks |-> ks_last, ctx |-> ctx,
                     decision |-> Evaluate(policies, kill_switch_active, ctx)]
    /\ UNCHANGED <<catalog, config, policies, kill_switch_active, ks_last,
                   orders, fills, positions, tokens, adapter_lock, task,
                   otherVars>>

RiskNext ==
    \/ TriggerKillSwitch
    \/ ResetKillSwitch
    \/ \E ctx \in RiskContexts : RiskEvaluate(ctx)

RiskSpec == RiskInit /\ [][RiskNext]_vars


\* ------------------------------------- Order::record_fill and its average
\* avg_fill_price is an f64 and the law of the average is one of exact
\* arithmetic: it is a fraction <<numerator, denominator>> in lowest terms
\* here, sizes and prices being integers in their units.
RECURSIVE GCD(_, _)
GCD(a, b) == IF b = 0 THEN a ELSE GCD(b, a % b)

Frac(n, d) == LET g == GCD(Abs(n), d) IN <<n \div g, d \div g>>
FracOf(x) == <<x, 1>>
FracTimes(r, x) == Frac(r[1] * x, r[2])
FracPlus(r, q) == Frac(r[1] * q[2] + q[1] * r[2], r[2] * q[2])
FracOver(r, x) == Frac(r[1], r[2] * x)

FillPrices == {5100, 5200, 5301}
FilledOrderSizes == {2, 3}

\* Order::new with the field the tracker's copies leave out here
NewOrderAvg(size) ==
    NewOrder(1, "v1", "m1", "Buy", "Limit", Some(5200), size)
        @@ [avg_fill_price |-> None]

\* the average taken over the total before the fill was added to it
AvgFillPrice_NoSubtract(order, fill_size, fill_price) ==
    IF order.avg_fill_price # None
    THEN LET avg_price == order.avg_fill_price[1]
             total_value == FracPlus(FracTimes(avg_price, order.filled_size),
                                     FracOf(fill_price * fill_size))
         IN  Some(FracOver(total_value, order.filled_size))
    ELSE Some(FracOf(fill_price))

\* Order::record_fill, "Update average fill price": order.filled_size
\* already holds the fill
AvgFillPrice(order, fill_size, fill_price) ==
    IF order.avg_fill_price # None
    THEN LET avg_price == order.avg_fill_price[1]
             total_value ==
                 FracPlus(FracTimes(avg_price, order.filled_size - fill_size),
                          FracOf(fill_price * fill_size))
         IN  Some(FracOver(total_value, order.filled_size))
    ELSE Some(FracOf(fill_price))

\* Order::record_fill(fill_size, fill_price) as a whole
OrderRecordFillAt(order, fill_size, fill_price) ==
    LET filled == OrderRecordFill(order, fill_size)
    IN  [filled EXCEPT
            !.avg_fill_price = AvgFillPrice(filled, fill_size, fill_price)]

FillInit ==
    /\ MoreIdle
    /\ EngineIdle
    /\ CoordIdle
    /\ filled_order \in {NewOrderAvg(size) : size \in FilledOrderSizes}
    /\ order_fills = << >>

OrderFill(fill_size, fill_price) ==
    /\ Len(order_fills) < MaxFills
    /\ filled_order' = OrderRecordFillAt(filled_order, fill_size, fill_price)
    /\ order_fills' = Append(order_fills, <<fill_size, fill_price>>)
    /\ UNCHANGED <<execVars, coordVars, moreVars>>

FillNext == \E fill_size \in FillSizes, fill_price \in FillPrices :
                OrderFill(fill_size, fill_price)

FillSpec == FillInit /\ [][FillNext]_vars


\* ------------------------------------------------ MultiMarketCoordinator
\* A strategy object (Box<dyn Strategy>) and the StrategyContext built for it
\* are known by the number of the registration that brought them.  Every
\* method of the coordinator takes &mut self: a caller's call begins only
\* when no other call holds the coordinator.
StrategyIds == {"s1", "s2"}
CoordMarkets == {"m1", "m2"}
\* the Vec<String> of markets a caller registers a strategy with
MarketLists == {<<"m1">>, <<"m2">>, <<"m1", "m2">>}
Callers == 1..MaxCallers

IdleCall ==
    [op |-> "idle", pc |-> "idle", id |-> "", market |-> "",
     markets |-> << >>, strategy_ids |-> << >>, i |-> 0, running |-> << >>,
     trace |-> << >>, answers |-> << >>, result |-> << >>]

\* a callback of a strategy object, invoked with a context
Callback(cb, id, strategy, context) ==
    [cb |-> cb, id |-> id, strategy |-> strategy, context |-> context]

CallbackError(callback) == <<"Err", callback.cb, callback.strategy>>
StrategyNotFound == <<"Err", "Strategy not found">>
ContextNotFound == <<"Err", "Context not found">>

CoordInit ==
    /\ MoreIdle
    /\ EngineIdle
    /\ OrderIdle
    /\ strategies = << >>
    /\ contexts = << >>
    /\ market_subscriptions = << >>
    /\ strategy_markets = << >>
    /\ coord_call = [c \in Callers |-> IdleCall]
    /\ next_strategy = 0
    /\ shut_down = {}

CallFree(c) == coord_call[c].pc \in {"idle", "done"}

\* no borrow of the coordinator at all
Exclusive_Shared(c) == TRUE

\* &mut self: nobody else is in a call of the coordinator
Exclusive(c) == \A d \in Callers \ {c} : CallFree(d)

StartCall(op, id, market) ==
    [IdleCall EXCEPT !.op = op, !.pc = "start", !.id = id, !.market = market]

\* the call awaits a callback of a strategy
Invoke(call, callback) ==
    [call EXCEPT !.pc = "callback", !.running = callback,
                 !.trace = Append(call.trace, callback)]

\* the callback the call awaits answers Ok(()) or an error
Answered(call, ok) == [call EXCEPT !.answers = Append(call.answers, ok)]

\* the call returns; what is kept of it is what it did and what it returned
Finish(call, result) ==
    [call EXCEPT !.pc = "done", !.running = << >>, !.markets = << >>,
                 !.i = 0, !.result = result]

\* for market in &markets { entry(market).or_default().push(strategy_id) }
RECURSIVE Subscribe(_, _, _)
Subscribe(subs, markets, strategy_id) ==
    IF markets = << >> THEN subs
    ELSE LET market == Head(markets)
         IN  Subscribe(Insert(subs, market,
                              Append(GetOr(subs, market, << >>), strategy_id)),
                       Tail(markets), strategy_id)

\* subs.retain(|id| id != strategy_id)
Retain(subs, strategy_id) == SelectSeq(subs, LAMBDA id : id # strategy_id)

\* for market in markets { retain; remove the list when it is empty }
RECURSIVE Unsubscribe(_, _, _)
Unsubscribe(subs, markets, strategy_id) ==
    IF markets = << >> THEN subs
    ELSE LET market == Head(markets)
         IN  IF market \in DOMAIN subs
             THEN LET kept == Retain(subs[market], strategy_id)
                  IN  Unsubscribe(IF kept = << >> THEN Remove(subs, {market})
                                  ELSE Insert(subs, market, kept),
                                  Tail(markets), strategy_id)
             ELSE Unsubscribe(subs, Tail(markets), strategy_id)

\* the for loop over strategy_ids from position i on: the position of the
\* next id that has both a strategy and a context
RECURSIVE NextRegistered(_, _)
NextRegistered(ids, i) ==
    IF i > Len(ids) THEN i
    ELSE IF ids[i] \in DOMAIN strategies /\ ids[i] \in DOMAIN contexts
         THEN i
         ELSE NextRegistered(ids, i + 1)

\* the loop goes on from position i: the next callback, or Ok(()) at the end
FanOut(call, cb, i) ==
    LET j == NextRegistered(call.strategy_ids, i)
    IN  IF j > Len(call.strategy_ids) THEN Finish(call, <<"Ok">>)
        ELSE LET id == call.strategy_ids[j]
             IN  [Invoke(call, Callback(cb, id, strategies[id], contexts[id]))
                     EXCEPT !.i = j + 1]

coordMaps == <<strategies, contexts, market_subscriptions, strategy_markets>>

\* register_strategy up to strategy.initialize(&mut context).await
RegisterStrategyBegin(c, strategy_id, markets) ==
    /\ CallFree(c) /\ Exclusive(c)
    /\ next_strategy < MaxStrategies
    /\ next_strategy' = next_strategy + 1
    /\ LET strategy == next_strategy + 1
           call == [StartCall("register_strategy", strategy_id, "")
                       EXCEPT !.markets = markets]
       IN  coord_call' =
               [coord_call EXCEPT ![c] =
                   Invoke(call, Callback("initialize", strategy_id,
                                         strategy, strategy))]
    /\ UNCHANGED <<execVars, orderVars, moreVars, coordMaps, shut_down>>

\* initialize answered: its error is returned, else the indices are written
RegisterStrategyInitialized(c, ok) ==
    /\ coord_call[c].op = "register_strategy"
    /\ coord_call[c].pc = "callback"
    /\ LET call == Answered(coord_call[c], ok)
       IN  IF ok
           THEN /\ market_subscriptions' =
                      Subscribe(market_subscriptions, call.markets, call.id)
                /\ strategy_markets' =
                      Insert(strategy_markets, call.id, call.markets)
                /\ strategies' =
                      Insert(strategies, call.id, call.running.strategy)
                /\ contexts' = Insert(contexts, call.id, call.running.context)
                /\ coord_call' = [coord_call EXCEPT ![c] =
                                      Finish(call, <<"Ok">>)]
           ELSE /\ coord_call' =
                      [coord_call EXCEPT ![c] =
                          Finish(call, CallbackError(call.running))]
                /\ UNCHANGED coordMaps
    /\ UNCHANGED <<execVars, orderVars, moreVars, next_strategy, shut_down>>

\* unregister_strategy up to strategy.shutdown(&mut context).await
UnregisterStrategyBegin(c, strategy_id) ==
    /\ CallFree(c) /\ Exclusive(c)
    /\ LET call == StartCall("unregister_strategy", strategy_id, "")
       IN  IF strategy_id \notin DOMAIN strategy_markets
           THEN /\ coord_call' = [coord_call EXCEPT ![c] =
                                      Finish(call, StrategyNotFound)]
                /\ UNCHANGED <<coordMaps, shut_down>>
           ELSE /\ strategy_markets' = Remove(strategy_markets, {strategy_id})
                /\ market_subscriptions' =
                      Unsubscribe(market_subscriptions,
                                  strategy_markets[strategy_id], strategy_id)
                /\ strategies' = Remove(strategies, {strategy_id})
                /\ contexts' = Remove(contexts, {strategy_id})
                /\ IF /\ strategy_id \in DOMAIN strategies
                      /\ strategy_id \in DOMAIN contexts
                   THEN /\ coord_call' =
                              [coord_call EXCEPT ![c] =
                                  Invoke(call,
                                         Callback("shutdown", strategy_id,
                                                  strategies[strategy_id],
                                                  contexts[strategy_id]))]
                        /\ shut_down' =
                              shut_down \cup {strategies[strategy_id]}
                   ELSE /\ coord_call' = [coord_call EXCEPT ![c] =
                                              Finish(call, <<"Ok">>)]
                        /\ UNCHANGED shut_down
    /\ UNCHANGED <<execVars, orderVars, moreVars, next_strategy>>

\* shutdown answered
UnregisterStrategyShutDown(c, ok) ==
    /\ coord_call[c].op = "unregister_strategy"
    /\ coord_call[c].pc = "callback"
    /\ coord_call' =
          [coord_call EXCEPT ![c] =
              Finish(Answered(coord_call[c], ok),
                     IF ok THEN <<"Ok">>
                     ELSE CallbackError(coord_call[c].running))]
    /\ UNCHANGED <<execVars, orderVars, moreVars, coordMaps, next_strategy,
                   shut_down>>

\* route_market_tick up to the first on_market_tick
RouteMarketTickBegin(c, market_id) ==
    /\ CallFree(c) /\ Exclusive(c)
    /\ LET call == StartCall("route_market_tick", "", market_id)
       IN  coord_call' =
               [coord_call EXCEPT ![c] =
                   IF market_id \notin DOMAIN market_subscriptions
                   THEN Finish(call, <<"Ok">>)
                   ELSE FanOut([call EXCEPT !.strategy_ids =
                                    market_subscriptions[market_id]],
                               "on_market_tick", 1)]
    /\ UNCHANGED <<execVars, orderVars, moreVars, coordMaps, next_strategy,
                   shut_down>>

\* route_market_tick going on after an error of a subscriber
RouteMarketTickNext_Continue(c, ok) ==
    /\ coord_call[c].op = "route_market_tick"
    /\ coord_call[c].pc = "callback"
    /\ coord_call' =
          [coord_call EXCEPT ![c] =
              FanOut(Answered(coord_call[c], ok), "on_market_tick",
                     coord_call[c].i)]
    /\ UNCHANGED <<execVars, orderVars, moreVars, coordMaps, next_strategy,
                   shut_down>>

\* on_market_tick answered: its error is returned, else the loop goes on
RouteMarketTickNext(c, ok) ==
    /\ coord_call[c].op = "route_market_tick"
    /\ coord_call[c].pc = "callback"
    /\ coord_call' =
          [coord_call EXCEPT ![c] =
              IF ok
              THEN FanOut(Answered(coord_call[c], ok), "on_market_tick",
                          coord_call[c].i)
              ELSE Finish(Answered(coord_call[c], ok),
                          CallbackError(coord_call[c].running))]
    /\ UNCHANGED <<execVars, orderVars, moreVars, coordMaps, next_strategy,
                   shut_down>>

\* route_fill and route_cancel up to on_fill / on_cancel
RouteEventBegin(c, op, cb, strategy_id) ==
    /\ CallFree(c) /\ Exclusive(c)
    /\ LET call == StartCall(op, strategy_id, "")
       IN  coord_call' =
               [coord_call EXCEPT ![c] =
                   IF strategy_id \notin DOMAIN strategies
                   THEN Finish(call, StrategyNotFound)
                   ELSE IF strategy_id \notin DOMAIN contexts
                   THEN Finish(call, ContextNotFound)
                   ELSE Invoke(call, Callback(cb, strategy_id,
                                              strategies[strategy_id],
                                              contexts[strategy_id]))]
    /\ UNCHANGED <<execVars, orderVars, moreVars, coordMaps, next_strategy,
                   shut_down>>

RouteFillBegin(c, strategy_id) ==
    RouteEventBegin(c, "route_fill", "on_fill", strategy_id)

RouteCancelBegin(c, strategy_id) ==
    RouteEventBegin(c, "route_cancel", "on_cancel", strategy_id)

\* on_fill / on_cancel answered: what it answered is returned
RouteEventReturn(c, ok) ==
    /\ coord_call[c].op \in {"route_fill", "route_cancel"}
    /\ coord_call[c].pc = "callback"
    /\ coord_call' =
          [coord_call EXCEPT ![c] =
              Finish(Answered(coord_call[c], ok),
                     IF ok THEN <<"Ok">>
                     ELSE CallbackError(coord_call[c].running))]
    /\ UNCHANGED <<execVars, orderVars, moreVars, coordMaps, next_strategy,
                   shut_down>>

\* the orders in which a HashMap may hand out its keys
KeyOrders(map) ==
    {ids \in SeqsUpTo(DOMAIN map, Cardinality(DOMAIN map)) :
        /\ Len(ids) = Cardinality(DOMAIN map)
        /\ {ids[k] : k \in 1..Len(ids)} = DOMAIN map}

\* on_timer_all up to the first on_timer
OnTimerAllBegin(c) ==
    /\ CallFree(c) /\ Exclusive(c)
    /\ \E strategy_ids \in KeyOrders(strategies) :
          coord_call' =
              [coord_call EXCEPT ![c] =
                  FanOut([StartCall("on_timer_all", "", "")
                             EXCEPT !.strategy_ids = strategy_ids],
                         "on_timer", 1)]
    /\ UNCHANGED <<execVars, orderVars, moreVars, coordMaps, next_strategy,
                   shut_down>>

\* on_timer answered: its error is returned, else the loop goes on
OnTimerAllNext(c, ok) ==
    /\ coord_call[c].op = "on_timer_all"
    /\ coord_call[c].pc = "callback"
    /\ coord_call' =
          [coord_call EXCEPT ![c] =
              IF ok
              THEN FanOut(Answered(coord_call[c], ok), "on_timer",
                          coord_call[c].i)
              ELSE Finish(Answered(coord_call[c], ok),
                          CallbackError(coord_call[c].running))]
    /\ UNCHANGED <<execVars, orderVars, moreVars, coordMaps, next_strategy,
                   shut_down>>

CoordNext ==
    \/ \E c \in Callers, id \in StrategyIds, markets \in MarketLists :
          RegisterStrategyBegin(c, id, markets)
    \/ \E c \in Callers, ok \in BOOLEAN : RegisterStrategyInitialized(c, ok)
    \/ \E c \in Callers, id \in StrategyIds : UnregisterStrategyBegin(c, id)
    \/ \E c \in Callers, ok \in BOOLEAN : UnregisterStrategyShutDown(c, ok)
    \/ \E c \in Callers, m \in CoordMarkets : RouteMarketTickBegin(c, m)
    \/ \E c \in Callers, ok \in BOOLEAN : RouteMarketTickNext(c, ok)
    \/ \E c \in Callers, id \in StrategyIds : RouteFillBegin(c, id)
    \/ \E c \in Callers, id \in StrategyIds : RouteCancelBegin(c, id)
    \/ \E c \in Callers, ok \in BOOLEAN : RouteEventReturn(c, ok)
    \/ \E c \in Callers : OnTimerAllBegin(c)
    \/ \E c \in Callers, ok \in BOOLEAN : OnTimerAllNext(c, ok)

CoordSpec == CoordInit /\ [][CoordNext]_vars

\* ------------------------------------ the locks the engine operations take
\* The four shared locks, in the order the description gives them.
Locks == <<"risk_engine", "positions", "order_tracker", "adapter">>
LockRank(lock) == CHOOSE r \in 1..Len(Locks) : Locks[r] = lock

\* A lock program is the sequence of what an operation does to the locks:
\* <<"acquire", l>> waits for l and takes it, <<"release", l>> drops the
\* guard, <<"may_return">> is a place where the operation can return (with ?
\* or return), which drops every guard it holds.
Acquire(lock) == <<"acquire", lock>>
Release(lock) == <<"release", lock>>
MayReturn == <<"may_return">>
\* a method of the OrderTracker takes the lock of its map and drops it
TrackerCall == <<Acquire("order_tracker"), Release("order_tracker")>>

submit_order_locks(risk_checks) ==
    <<MayReturn>>                             \* validate(&order)?
    \o (IF risk_checks
        THEN <<Acquire("positions"),          \* self.positions.lock().await
               Acquire("risk_engine"),        \* risk_engine.lock().await
               MayReturn,                     \* return Err(RiskRejected)
               Release("risk_engine"),        \* the guards go out of scope
               Release("positions")>>
        ELSE << >>)
    \o <<MayReturn>>                          \* VenueNotSupported, check()?
    \o TrackerCall                            \* track_order
    \o <<Acquire("adapter"),                  \* adapter.lock().await
         MayReturn>>                          \* place_order(..).await?
    \o TrackerCall                            \* update_status(ack.status)
    \o <<Release("adapter")>>

cancel_order_locks ==
    TrackerCall                               \* get_order
    \o <<MayReturn>>                          \* OrderNotFound, terminal, ...
    \o TrackerCall                            \* update_status(Cancelling)
    \o <<Acquire("adapter"),                  \* adapter.lock().await
         MayReturn>>                          \* cancel_order(..).await?,
                                              \* or ack.success is false
    \o TrackerCall                            \* update_status(Cancelled)
    \o <<Release("adapter")>>

get_status_locks ==
    TrackerCall                               \* get_order
    \o <<MayReturn,                           \* OrderNotFound, terminal, ...
         Acquire("adapter"),                  \* adapter.lock().await
         MayReturn>>                          \* get_order_status(..).await?
    \o TrackerCall                            \* update_status(status)
    \o <<Release("adapter")>>

\* record_fill asking the adapter while it holds the tracker's lock
record_fill_locks_HoldingTracker ==
    <<Acquire("order_tracker"), MayReturn, Acquire("adapter"),
      Release("adapter"), Release("order_tracker"),
      Acquire("positions"), Release("positions")>>

record_fill_locks ==
    TrackerCall                               \* OrderTracker::record_fill,
    \o <<MayReturn>>                          \*   OrderNotFound
    \o TrackerCall                            \*   the fills map
    \o TrackerCall                            \* get_order
    \o <<MayReturn,
         Acquire("positions"),                \* self.positions.lock().await
         Release("positions")>>

get_position_locks == <<Acquire("positions"), Release("positions")>>

LockPrograms ==
    [submit_order |-> submit_order_locks(TRUE),
     submit_order_unchecked |-> submit_order_locks(FALSE),
     cancel_order |-> cancel_order_locks,
     get_status |-> get_status_locks,
     record_fill |-> record_fill_locks,
     get_position |-> get_position_locks]

IdleLockCall == [op |-> "idle", pc |-> 0, held |-> << >>]

\* the locks an operation holds, in the order it took them
Held(t) == {lock_call[t].held[i] : i \in 1..Len(lock_call[t].held)}
LockFree(lock) == \A t \in DOMAIN lock_call : lock \notin Held(t)
AtStep(t) ==
    IF lock_call[t].op # "idle"
       /\ lock_call[t].pc <= Len(LockPrograms[lock_call[t].op])
    THEN LockPrograms[lock_call[t].op][lock_call[t].pc]
    ELSE <<"end">>

lockRest == <<execVars, orderVars, coordVars, limVars, ctxVars, btVars,
             laterVars>>

LockRestIdle ==
    /\ EngineIdle
    /\ OrderIdle
    /\ CoordIdle
    /\ LimIdle
    /\ CtxIdle
    /\ BtIdle
    /\ LaterIdle

LockInit ==
    /\ LockRestIdle
    /\ lock_call = [t \in Tasks |-> IdleLockCall]

LockBegin(t, op) ==
    /\ lock_call[t].op = "idle"
    /\ lock_call' = [lock_call EXCEPT ![t] =
                        [op |-> op, pc |-> 1, held |-> << >>]]
    /\ UNCHANGED lockRest

\* Mutex::lock().await and RwLock::write(): the caller waits until the lock
\* is free
LockAcquire(t) ==
    /\ AtStep(t)[1] = "acquire"
    /\ LockFree(AtStep(t)[2])
    /\ lock_call' = [lock_call EXCEPT
                        ![t].pc = @ + 1,
                        ![t].held = Append(@, AtStep(t)[2])]
    /\ UNCHANGED lockRest

LockRelease(t) ==
    /\ AtStep(t)[1] = "release"
    /\ lock_call' = [lock_call EXCEPT
                        ![t].pc = @ + 1,
                        ![t].held = SelectSeq(@, LAMBDA l : l # AtStep(t)[2])]
    /\ UNCHANGED lockRest

LockProceed(t) ==
    /\ AtStep(t)[1] = "may_return"
    /\ lock_call' = [lock_call EXCEPT ![t].pc = @ + 1]
    /\ UNCHANGED lockRest

\* the operation returns: at a ? or a return, or at its end
LockReturn(t) ==
    /\ AtStep(t)[1] \in {"may_return", "end"}
    /\ lock_call[t].op # "idle"
    /\ lock_call' = [lock_call EXCEPT ![t] = IdleLockCall]
    /\ UNCHANGED lockRest

LockNext ==
    \/ \E t \in Tasks, op \in DOMAIN LockPrograms : LockBegin(t, op)
    \/ \E t \in Tasks : LockAcquire(t)
    \/ \E t \in Tasks : LockRelease(t)
    \/ \E t \in Tasks : LockProceed(t)
    \/ \E t \in Tasks : LockReturn(t)

LockSpec == LockInit /\ [][LockNext]_vars

\* An operation that is not waiting for a lock goes on: adapters and rate
\* limiters answer, and the runtime keeps polling the task.  tokio's Mutex
\* queues its waiters, so an operation waiting for a lock that is freed
\* again and again eventually gets it.
LockRuns(t) == LockRelease(t) \/ LockProceed(t) \/ LockReturn(t)

LockLiveSpec ==
    /\ LockInit
    /\ [][LockNext]_vars
    /\ \A t \in Tasks : WF_vars(LockRuns(t)) /\ SF_vars(LockAcquire(t))

\* ------------------------------------------------------------ RateLimiter
\* A call record tells one call of a task from its next by the bit "call".
\* The limiter wraps governor's direct rate limiter with the quota
\* per_second(requests_per_second).allow_burst(burst_size): one cell is
\* replenished every 1/requests_per_second of a second, up to burst_size
\* cells.  Time is counted in instants, TicksPerToken of them to one
\* replenishment; lim_debt is how far governor's theoretical arrival time
\* lies ahead of the present instant.
LimVenue == "v1"
LimConfigs ==
    {[venue_id |-> LimVenue, requests_per_second |-> rps, burst_size |-> b] :
        rps \in 1..MaxRps, b \in 1..MaxBurst}
\* the instants in one second
TicksPerSecond == lim_config.requests_per_second * TicksPerToken
\* the debt up to which a cell is granted
Tolerance == TicksPerToken * (lim_config.burst_size - 1)
\* the cells that could be taken at this instant
Available ==
    IF lim_debt > Tolerance THEN 0
    ELSE (Tolerance - lim_debt) \div TicksPerToken + 1
\* the time until a cell is there
WaitTime == IF lim_debt > Tolerance THEN lim_debt - Tolerance ELSE 0

RateLimitExceeded == <<"RateLimitExceeded", lim_config.venue_id>>
IdleLimCall ==
    [op |-> "idle", pc |-> "idle", call |-> 0, wait |-> 0, waited |-> FALSE,
     result |-> << >>]
LimFree(t) == lim_call[t].pc \in {"idle", "done"}

limRest == <<execVars, orderVars, coordVars, lockVars, ctxVars, btVars,
             laterVars>>

LimRestIdle ==
    /\ EngineIdle
    /\ OrderIdle
    /\ CoordIdle
    /\ LockIdle
    /\ CtxIdle
    /\ BtIdle
    /\ LaterIdle

\* RateLimiter::new
LimInit ==
    /\ LimRestIdle
    /\ lim_config \in LimConfigs
    /\ lim_debt = 0
    /\ lim_window = [i \in 1..(TicksPerSecond + 1) |-> 0]
    /\ lim_call = [t \in Tasks |-> IdleLimCall]
    /\ lim_queue = << >>
    /\ lim_fresh = [fresh |-> TRUE, results |-> << >>]

\* governor's check() granting a cell: the arrival time moves on by one
\* replenishment interval, and the permit is counted at this instant
Grant ==
    /\ lim_debt' = lim_debt + TicksPerToken
    /\ lim_window' = [lim_window EXCEPT ![Len(lim_window)] = @ + 1]

\* a denial that still moved the arrival time on
Deny_Consuming ==
    /\ lim_debt' = IF lim_debt <= Tolerance + TicksPerToken
                   THEN lim_debt + 1 ELSE lim_debt
    /\ UNCHANGED lim_window

\* governor's check() denying a cell: the limiter's state is left as it was
Deny == UNCHANGED <<lim_debt, lim_window>>

\* RateLimiter::try_check: one call of governor's check(), its error mapped
LimTryCheck(t) ==
    /\ LimFree(t)
    /\ IF Available > 0
       THEN /\ Grant
            /\ lim_call' = [lim_call EXCEPT ![t] =
                               [op |-> "try_check", pc |-> "done",
                                call |-> 1 - lim_call[t].call,
                                wait |-> 0, waited |-> FALSE,
                                result |-> <<"Ok">>]]
       ELSE /\ Deny
            /\ lim_call' = [lim_call EXCEPT ![t] =
                               [op |-> "try_check", pc |-> "done",
                                call |-> 1 - lim_call[t].call,
                                wait |-> 0, waited |-> FALSE,
                                result |-> RateLimitExceeded]]
    /\ lim_fresh' =
         IF lim_fresh.fresh /\ Len(lim_fresh.results) <= MaxBurst
         THEN [lim_fresh EXCEPT
                  !.results = Append(@, IF Available > 0 THEN "Ok"
                                        ELSE "RateLimitExceeded")]
         ELSE [fresh |-> FALSE, results |-> << >>]
    /\ UNCHANGED <<lim_config, lim_queue, limRest>>

\* RateLimiter::check: Ok at once when governor's check() grants a cell,
\* else the task goes into until_ready() and sleeps for the time governor
\* names
LimCheck(t) ==
    /\ LimFree(t)
    /\ IF Available > 0
       THEN /\ Grant
            /\ lim_call' = [lim_call EXCEPT ![t] =
                               [op |-> "check", pc |-> "done",
                                call |-> 1 - lim_call[t].call,
                                wait |-> 0, waited |-> FALSE,
                                result |-> <<"Ok">>]]
            /\ UNCHANGED lim_queue
       ELSE /\ Deny
            /\ lim_call' = [lim_call EXCEPT ![t] =
                               [op |-> "check", pc |-> "waiting",
                                call |-> 1 - lim_call[t].call,
                                wait |-> WaitTime, waited |-> TRUE,
                                result |-> << >>]]
            /\ lim_queue' = Append(lim_queue, t)
    /\ lim_fresh' = [fresh |-> FALSE, results |-> << >>]
    /\ UNCHANGED <<lim_config, limRest>>

\* until_ready(): the sleep is over, the task asks governor again; it
\* returns with the cell or sleeps once more
LimRetry_GiveUp(t) ==
    /\ lim_call[t].pc = "waiting"
    /\ lim_call[t].wait = 0
    /\ IF Available > 0
       THEN /\ Grant
            /\ lim_call' = [lim_call EXCEPT ![t].pc = "done",
                                            ![t].result = <<"Ok">>]
       ELSE /\ Deny
            /\ lim_call' = [lim_call EXCEPT ![t].pc = "done",
                                            ![t].result = RateLimitExceeded]
    /\ lim_queue' = SelectSeq(lim_queue, LAMBDA w : w # t)
    /\ UNCHANGED <<lim_config, lim_fresh, limRest>>

LimRetry(t) ==
    /\ lim_call[t].pc = "waiting"
    /\ lim_call[t].wait = 0
    /\ IF Available > 0
       THEN /\ Grant
            /\ lim_call' = [lim_call EXCEPT ![t].pc = "done",
                                            ![t].result = <<"Ok">>]
            /\ lim_queue' = SelectSeq(lim_queue, LAMBDA w : w # t)
       ELSE /\ Deny
            /\ lim_call' = [lim_call EXCEPT ![t].wait = WaitTime]
            /\ UNCHANGED lim_queue
    /\ UNCHANGED <<lim_config, lim_fresh, limRest>>

\* one instant passes
LimTick_RefillAll ==
    /\ lim_debt' = 0
    /\ lim_window' = Append(Tail(lim_window), 0)
    /\ lim_call' = [t \in DOMAIN lim_call |->
                       [lim_call[t] EXCEPT
                           !.wait = IF @ > 0 THEN @ - 1 ELSE 0]]
    /\ lim_fresh' = [fresh |-> FALSE, results |-> << >>]
    /\ UNCHANGED <<lim_config, lim_queue, limRest>>

LimTick ==
    /\ lim_debt' = IF lim_debt > 0 THEN lim_debt - 1 ELSE 0
    /\ lim_window' = Append(Tail(lim_window), 0)
    /\ lim_call' = [t \in DOMAIN lim_call |->
                       [lim_call[t] EXCEPT
                           !.wait = IF @ > 0 THEN @ - 1 ELSE 0]]
    /\ lim_fresh' = [fresh |-> FALSE, results |-> << >>]
    /\ UNCHANGED <<lim_config, lim_queue, limRest>>

LimNext ==
    \/ \E t \in Tasks : LimTryCheck(t)
    \/ \E t \in Tasks : LimCheck(t)
    \/ \E t \in Tasks : LimRetry(t)
    \/ LimTick

LimiterSpec == LimInit /\ [][LimNext]_vars

\* Time passes, and a task that is awake in until_ready() whenever a cell
\* is there does not lose the cell to other callers every time.
LimiterLiveSpec ==
    /\ LimInit
    /\ [][LimNext]_vars
    /\ WF_vars(LimTick)
    /\ \A t \in Tasks : SF_vars(LimRetry(t) /\ lim_call'[t].pc = "done")

\* -------------------------------------------------------- StrategyContext
\* Sizes and prices are integers in their units; an entry price is a
\* quotient, kept as a fraction in lowest terms.  With integer sizes the
\* test |new_size| > 1e-8 is the test new_size # 0.
CtxMarkets == {"m1", "m2"}
CtxMaxPosition == 2
CtxMaxInventory == 6
CtxPolicies ==
    <<PositionLimit(None, CtxMaxPosition), InventoryLimit(CtxMaxInventory)>>
\* the orders a strategy submits
CtxOrders ==
    [market : CtxMarkets, side : {"Buy", "Sell"}, size : {1, 2},
     price : {Some(3)}]
CtxSizeDeltas == {-2, -1, 1}
CtxPrices == {1, 3}
CtxOrderIds == 1..MaxCtxCalls

\* a quotient by a size of either sign
FracDiv(r, x) ==
    IF x < 0 THEN Frac(-r[1], r[2] * (-x)) ELSE Frac(r[1], r[2] * x)

\* Position::new
NewPosition ==
    [size |-> 0, entry_price |-> FracOf(0), unrealized_pnl |-> FracOf(0),
     realized_pnl |-> FracOf(0), value_usd |-> 0]

\* size * (price - entry_price)
UnrealizedPnl(size, price, entry_price) ==
    FracTimes(FracPlus(FracOf(price), <<-entry_price[1], entry_price[2]>>),
              size)

\* StrategyContext::calculate_total_inventory_value
calculate_total_inventory_value(positions_map) ==
    SumValues([m \in DOMAIN positions_map |-> positions_map[m].value_usd])

\* the RiskContext that submit_order builds for an order
CtxRiskContext(order) ==
    [market_id |-> order.market,
     current_position |->
         IF order.market \in DOMAIN ctx_positions
         THEN ctx_positions[order.market].size ELSE 0,
     proposed_size |-> IF order.side = "Buy" THEN order.size ELSE -order.size,
     inventory_value_usd |-> calculate_total_inventory_value(ctx_positions)]

ctxRest == <<execVars, orderVars, coordVars, lockVars, limVars, btVars,
             laterVars>>

CtxRestIdle ==
    /\ EngineIdle
    /\ OrderIdle
    /\ CoordIdle
    /\ LockIdle
    /\ LimIdle
    /\ BtIdle
    /\ LaterIdle

\* StrategyContext::new with a risk engine of CtxPolicies
CtxInit ==
    /\ CtxRestIdle
    /\ ctx_risk = [policies |-> CtxPolicies, kill_switch_active |-> FALSE]
    /\ ctx_positions = << >>
    /\ ctx_orders = << >>
    /\ ctx_exec = [orders |-> << >>, next_order_id |-> 1]
    /\ ctx_last = [op |-> "new"]
    /\ ctx_calls = 0

\* MockExecutionEngine::submit_order: the engine with the order, and its id
MockSubmitOrder(exec, order) ==
    [orders |-> Insert(exec.orders, exec.next_order_id,
                       order @@ [id |-> Some(exec.next_order_id)]),
     next_order_id |-> exec.next_order_id + 1]

\* submit_order handing the order to the engine before the risk check
CtxSubmitOrder_SubmitFirst(order) ==
    /\ ctx_calls < MaxCtxCalls
    /\ ctx_calls' = ctx_calls + 1
    /\ LET decision == Evaluate(ctx_risk.policies, ctx_risk.kill_switch_active,
                                CtxRiskContext(order))
           order_id == ctx_exec.next_order_id
       IN  /\ ctx_exec' = MockSubmitOrder(ctx_exec, order)
           /\ IF ~decision.allowed
              THEN /\ ctx_last' =
                        [op |-> "submit_order", order |-> order,
                         result |-> <<"RiskRejected",
                                      decision.violated_policies>>]
                   /\ UNCHANGED ctx_orders
              ELSE /\ ctx_orders' = Insert(ctx_orders, order_id, order)
                   /\ ctx_last' = [op |-> "submit_order", order |-> order,
                                   result |-> <<"Ok", order_id>>]
    /\ UNCHANGED <<ctx_risk, ctx_positions, ctxRest>>

\* StrategyContext::submit_order
CtxSubmitOrder(order) ==
    /\ ctx_calls < MaxCtxCalls
    /\ ctx_calls' = ctx_calls + 1
    /\ LET decision == Evaluate(ctx_risk.policies, ctx_risk.kill_switch_active,
                                CtxRiskContext(order))
           order_id == ctx_exec.next_order_id
       IN  IF ~decision.allowed
           THEN /\ ctx_last' =
                     [op |-> "submit_order", order |-> order,
                      result |-> <<"RiskRejected",
                                   decision.violated_policies>>]
                /\ UNCHANGED <<ctx_orders, ctx_exec>>
           ELSE /\ ctx_exec' = MockSubmitOrder(ctx_exec, order)
                /\ ctx_orders' = Insert(ctx_orders, order_id, order)
                /\ ctx_last' = [op |-> "submit_order", order |-> order,
                                result |-> <<"Ok", order_id>>]
    /\ UNCHANGED <<ctx_risk, ctx_positions, ctxRest>>

\* StrategyContext::cancel_order
CtxCancelOrder(order_id) ==
    /\ ctx_calls < MaxCtxCalls
    /\ ctx_calls' = ctx_calls + 1
    /\ IF order_id \in DOMAIN ctx_exec.orders
       THEN /\ ctx_exec' = [ctx_exec EXCEPT !.orders = Remove(@, {order_id})]
            /\ ctx_orders' = Remove(ctx_orders, {order_id})
            /\ ctx_last' = [op |-> "cancel_order", order_id |-> order_id,
                            result |-> <<"Ok">>]
       ELSE /\ ctx_last' = [op |-> "cancel_order", order_id |-> order_id,
                            result |-> <<"OrderNotFound", order_id>>]
            /\ UNCHANGED <<ctx_orders, ctx_exec>>
    /\ UNCHANGED <<ctx_risk, ctx_positions, ctxRest>>

\* update_position keeping the entry price of a position that goes flat
UpdatedPosition_KeepEntry(position, size_delta, price) ==
    LET old_size == position.size
        new_size == old_size + size_delta
        old_value == FracTimes(position.entry_price, old_size)
        new_value == FracOf(size_delta * price)
        entry_price ==
            IF new_size # 0
            THEN FracDiv(FracPlus(old_value, new_value), new_size)
            ELSE position.entry_price
    IN  [size |-> new_size,
         entry_price |-> entry_price,
         unrealized_pnl |->
             IF new_size # 0 THEN UnrealizedPnl(new_size, price, entry_price)
             ELSE FracOf(0),
         realized_pnl |-> position.realized_pnl,
         value_usd |-> Abs(new_size) * price]

\* the position update_position leaves behind
UpdatedPosition(position, size_delta, price) ==
    LET old_size == position.size
        new_size == old_size + size_delta
        old_value == FracTimes(position.entry_price, old_size)
        new_value == FracOf(size_delta * price)
        entry_price ==
            IF new_size # 0
            THEN FracDiv(FracPlus(old_value, new_value), new_size)
            ELSE FracOf(0)
    IN  [size |-> new_size,
         entry_price |-> entry_price,
         unrealized_pnl |->
             IF new_size # 0 THEN UnrealizedPnl(new_size, price, entry_price)
             ELSE FracOf(0),
         realized_pnl |-> position.realized_pnl,
         value_usd |-> Abs(new_size) * price]

\* StrategyContext::update_position
CtxUpdatePosition(market_id, size_delta, price) ==
    /\ ctx_calls < MaxCtxCalls
    /\ ctx_calls' = ctx_calls + 1
    /\ LET position == GetOr(ctx_positions, market_id, NewPosition)
       IN  ctx_positions' =
               Insert(ctx_positions, market_id,
                      UpdatedPosition(position, size_delta, price))
    /\ ctx_last' = [op |-> "update_position", market_id |-> market_id,
                    size_delta |-> size_delta, price |-> price]
    /\ UNCHANGED <<ctx_risk, ctx_orders, ctx_exec, ctxRest>>

\* RiskEngine::trigger_kill_switch / reset_kill_switch on the shared engine
CtxSetKillSwitch(active) ==
    /\ ctx_risk.kill_switch_active # active
    /\ ctx_risk' = [ctx_risk EXCEPT !.kill_switch_active = active]
    /\ UNCHANGED <<ctx_positions, ctx_orders, ctx_exec, ctx_last, ctx_calls,
                   ctxRest>>

CtxNext ==
    \/ \E order \in CtxOrders : CtxSubmitOrder(order)
    \/ \E order_id \in CtxOrderIds : CtxCancelOrder(order_id)
    \/ \E market_id \in CtxMarkets, size_delta \in CtxSizeDeltas,
          price \in CtxPrices : CtxUpdatePosition(market_id, size_delta, price)
    \/ \E active \in BOOLEAN : CtxSetKillSwitch(active)

ContextSpec == CtxInit /\ [][CtxNext]_vars

\* ------------------------- submissions while the kill switch is operated
\* The risk engine sits behind a mutex: trigger_kill_switch and
\* reset_kill_switch happen between the steps of the submissions, never
\* inside the evaluation of one.
KillNext ==
    \/ \E t \in Tasks, id \in OrderIds : SubmitBegin(t, id)
    \/ \E t \in Tasks : SubmitValidate(t)
    \/ \E t \in Tasks : SubmitRisk(t)
    \/ \E t \in Tasks : SubmitLookup(t)
    \/ \E t \in Tasks : SubmitRateLimit(t)
    \/ \E t \in Tasks : SubmitTrack(t)
    \/ \E t \in Tasks : SubmitPlace(t)
    \/ \E t \in Tasks : SubmitAck(t)
    \/ Refill
    \/ TriggerKillSwitch
    \/ ResetKillSwitch

KillSpec == ExecInit /\ [][KillNext]_vars

\* -------------------------------------------- BacktestEngine::run_backtest
\* The strategy under test quotes the limit orders of its plan on every
\* tick and books its fills with update_position, as the market maker does;
\* it builds its orders with id None (Order { .., ..Default::default() }).
\* The fill probability is in percent.  on_timer, due after every 100th
\* tick, does nothing in this strategy.
BtMarket == "m1"
BtTick(bid, ask) == [market |-> BtMarket, bid |-> Some(bid), ask |-> Some(ask)]
BtTicks == {BtTick(2, 4), BtTick(3, 5)}
BtOrder(side, price) ==
    [id |-> None, market |-> BtMarket, side |-> side, order_type |-> "Limit",
     price |-> Some(price), size |-> 1]
BtPlans == {<< >>, <<BtOrder("Buy", 3)>>, <<BtOrder("Buy", 4)>>,
            <<BtOrder("Sell", 3)>>}
\* BacktestConfig::default(), and a simulator that fills every order
BtConfigs ==
    {[initial_capital |-> 100, slippage_bps |-> 5, fill_probability |-> p,
      taker_fee_bps |-> 10, maker_fee_bps |-> -5,
      policies |-> <<PositionLimit(None, 1000), InventoryLimit(10000)>>] :
        p \in {80, 100}}

\* what "rand::random::<f64>() > fill_probability" can be
RandAbove(fill_probability) ==
    IF fill_probability >= 100 THEN {FALSE} ELSE {TRUE, FALSE}

\* FillSimulator::simulate_limit_order_fill
simulate_limit_order_fill(order, tick, rand_above, now) ==
    IF order.price = None THEN None
    ELSE LET order_price == order.price[1]
             would_fill ==
                 IF order.side = "Buy"
                 THEN tick.ask # None /\ order_price >= tick.ask[1]
                 ELSE tick.bid # None /\ order_price <= tick.bid[1]
             fee_bps == IF ~would_fill THEN bt_config.maker_fee_bps
                        ELSE bt_config.taker_fee_bps
         IN  IF ~would_fill /\ rand_above THEN None
             ELSE Some([order_id |-> IF order.id = None THEN ""
                                     ELSE order.id[1],
                        market |-> order.market,
                        price |-> order_price,
                        size |-> order.size,
                        side |-> order.side,
                        fee |-> Frac(order.size * order_price * fee_bps,
                                     10000),
                        timestamp |-> now])

\* MarketTick::mid_price, for a tick whose bid or ask is missing
mid_price(tick) ==
    IF tick.bid # None /\ tick.ask # None
    THEN Frac(tick.bid[1] + tick.ask[1], 2)
    ELSE IF tick.bid # None THEN FracOf(tick.bid[1])
    ELSE IF tick.ask # None THEN FracOf(tick.ask[1])
    ELSE IF tick.last # None THEN FracOf(tick.last[1])
    ELSE FracOf(0)

\* FillSimulator::simulate_market_order_fill; the fill price, the ask or the
\* bid moved by the slippage, is an exact fraction
simulate_market_order_fill(order, tick, now) ==
    LET fill_price ==
            IF order.side = "Buy"
            THEN FracOver(FracTimes(IF tick.ask # None
                                    THEN FracOf(tick.ask[1])
                                    ELSE mid_price(tick),
                                    10000 + bt_config.slippage_bps),
                          10000)
            ELSE FracOver(FracTimes(IF tick.bid # None
                                    THEN FracOf(tick.bid[1])
                                    ELSE mid_price(tick),
                                    10000 - bt_config.slippage_bps),
                          10000)
    IN  Some([order_id |-> IF order.id = None THEN "" ELSE order.id[1],
              market |-> order.market,
              price |-> fill_price,
              size |-> order.size,
              side |-> order.side,
              fee |-> FracOver(FracTimes(fill_price,
                                         order.size * bt_config.taker_fee_bps),
                               10000),
              timestamp |-> now])

\* simulate_fill treating the stop orders as market orders
simulate_fill_StopsFill(order, tick, rand_above, now) ==
    IF order.order_type = "Limit"
    THEN simulate_limit_order_fill(order, tick, rand_above, now)
    ELSE simulate_market_order_fill(order, tick, now)

\* FillSimulator::simulate_fill: market orders, limit orders, and the stop
\* orders that are not implemented
simulate_fill(order, tick, rand_above, now) ==
    IF order.order_type = "Market"
    THEN simulate_market_order_fill(order, tick, now)
    ELSE IF order.order_type = "Limit"
    THEN simulate_limit_order_fill(order, tick, rand_above, now)
    ELSE None

\* the sequences that list the elements of a set once each: the orders in
\* which a HashMap may hand out its values
Orderings(set) ==
    {seq \in [1..Cardinality(set) -> set] :
        \A i, j \in 1..Cardinality(set) : i # j => seq[i] # seq[j]}

\* StrategyContext::new inside run_backtest
BtContext ==
    [orders |-> << >>, positions |-> << >>, next_order_id |-> 1]

\* the strategy's on_market_tick: StrategyContext::submit_order for each
\* order of the plan, a rejected order being skipped; the context after it
RECURSIVE BtSubmitAll(_, _)
BtSubmitAll(ctx, plan) ==
    IF plan = << >> THEN ctx
    ELSE LET order == Head(plan)
             position == GetOr(ctx.positions, order.market, NewPosition)
             decision ==
                 Evaluate(bt_config.policies, FALSE,
                          [market_id |-> order.market,
                           current_position |-> position.size,
                           proposed_size |->
                               IF order.side = "Buy" THEN order.size
                               ELSE -order.size,
                           inventory_value_usd |->
                               calculate_total_inventory_value(
                                   ctx.positions)])
         IN  IF decision.allowed
             THEN BtSubmitAll(
                      [ctx EXCEPT
                          !.orders = Insert(@, ctx.next_order_id, order),
                          !.next_order_id = @ + 1],
                      Tail(plan))
             ELSE BtSubmitAll(ctx, Tail(plan))

\* calculate_total_realized_pnl() + calculate_total_unrealized_pnl()
RECURSIVE BtTotalPnl(_)
BtTotalPnl(positions_map) ==
    IF DOMAIN positions_map = {} THEN FracOf(0)
    ELSE LET m == CHOOSE x \in DOMAIN positions_map : TRUE
         IN  FracPlus(FracPlus(positions_map[m].realized_pnl,
                               positions_map[m].unrealized_pnl),
                      BtTotalPnl(Remove(positions_map, {m})))

IdleRun == [pc |-> "idle"]

btRest == <<execVars, orderVars, coordVars, lockVars, limVars, ctxVars,
             laterVars>>

BtRestIdle ==
    /\ EngineIdle
    /\ OrderIdle
    /\ CoordIdle
    /\ LockIdle
    /\ LimIdle
    /\ CtxIdle
    /\ LaterIdle

\* the strategy callbacks, any one of which may be the one that fails
BtCallbacks ==
    {"initialize", "on_market_tick", "on_fill", "on_timer", "shutdown"}

\* on_timer is due when the number of equity samples is a multiple of this
TimerEvery == 100

\* a timer that is due after every tick
TimerDue_EveryTick(equity_curve) == TRUE

\* "if equity_curve.len() % 100 == 0"
TimerDue(equity_curve) == Len(equity_curve) % TimerEvery = 0

\* BacktestEngine::new, and the arguments the runs are given: a few ticks
\* with any strategy, or enough ticks for the timer with a strategy that
\* places no order
BtInit ==
    /\ BtRestIdle
    /\ bt_config \in BtConfigs
    /\ bt_plan \in BtPlans
    /\ \/ bt_ticks \in UNION {[1..n -> BtTicks] : n \in 0..MaxTicks}
       \/ /\ bt_plan = << >>
          /\ bt_ticks = [i \in 1..(TimerEvery + 1) |-> BtTick(2, 4)]
    /\ bt_fails \in {"none"} \cup BtCallbacks
    /\ bt_now = 1
    /\ bt_run = IdleRun
    /\ bt_results = << >>
    /\ bt_trace = << >>

\* "?" on a callback's Err: run_backtest returns it and the run is over
BtAbort(callback, trace) ==
    /\ bt_run' = IdleRun
    /\ bt_results' = Append(bt_results, <<"Err", callback>>)
    /\ bt_trace' = trace

\* run_backtest is called: no ticks is an error, else the context is made
\* and the strategy initialized
BtStart ==
    /\ bt_run.pc = "idle"
    /\ Len(bt_results) < MaxRuns
    /\ IF bt_ticks = << >>
       THEN /\ bt_results' = Append(bt_results, <<"InsufficientData">>)
            /\ bt_trace' = << >>
            /\ UNCHANGED bt_run
       ELSE IF bt_fails = "initialize"
       THEN BtAbort("initialize", <<<<"initialize">>>>)
       ELSE /\ bt_run' = [pc |-> "tick", i |-> 1, ctx |-> BtContext,
                          pending |-> << >>, trades |-> << >>,
                          equity_curve |-> << >>]
            /\ bt_trace' = <<<<"initialize">>>>
            /\ UNCHANGED bt_results
    /\ UNCHANGED <<bt_config, bt_ticks, bt_plan, bt_fails, bt_now, btRest>>

\* on_market_tick, then the open orders of the tick's market are collected
\* in the order the map iterates; each is kept with its key in ctx.orders
BtOnMarketTick ==
    /\ bt_run.pc = "tick"
    /\ LET trace == Append(bt_trace, <<"on_market_tick", bt_run.i>>)
           ctx == BtSubmitAll(bt_run.ctx, bt_plan)
           matching == {id \in DOMAIN ctx.orders :
                           ctx.orders[id].market = bt_ticks[bt_run.i].market}
       IN  IF bt_fails = "on_market_tick"
           THEN BtAbort("on_market_tick", trace)
           ELSE /\ \E ids \in Orderings(matching) :
                      bt_run' = [bt_run EXCEPT
                                    !.pc = "fill",
                                    !.ctx = ctx,
                                    !.pending =
                                        [k \in 1..Len(ids) |->
                                            [key |-> ids[k],
                                             order |-> ctx.orders[ids[k]]]]]
                /\ bt_trace' = trace
                /\ UNCHANGED bt_results
    /\ UNCHANGED <<bt_config, bt_ticks, bt_plan, bt_fails, bt_now, btRest>>

\* the simulator is asked about the next collected order; a fill goes to
\* on_fill, becomes a trade, and the order is removed by its id if it has one
BtSimulateFill(rand_above) ==
    /\ bt_run.pc = "fill"
    /\ bt_run.pending # << >>
    /\ LET order == Head(bt_run.pending).order
           key == Head(bt_run.pending).key
           fill == simulate_fill(order, bt_ticks[bt_run.i], rand_above,
                                 bt_now)
           simulated == Append(bt_trace, <<"simulate_fill", bt_run.i, key,
                                           fill # None>>)
           trace == IF fill = None THEN simulated
                    ELSE Append(simulated, <<"on_fill", bt_run.i, key>>)
       IN  IF fill = None
           THEN /\ bt_run' = [bt_run EXCEPT !.pending = Tail(@)]
                /\ bt_trace' = trace
                /\ UNCHANGED bt_results
           ELSE IF bt_fails = "on_fill"
           THEN BtAbort("on_fill", trace)
           ELSE LET f == fill[1]
                    position == GetOr(bt_run.ctx.positions, f.market,
                                      NewPosition)
                    size_delta == IF f.side = "Buy" THEN f.size ELSE -f.size
                IN  /\ bt_run' =
                        [bt_run EXCEPT
                            !.pending = Tail(@),
                            !.ctx.positions =
                                Insert(@, f.market,
                                       UpdatedPosition(position, size_delta,
                                                       f.price)),
                            !.ctx.orders =
                                IF order.id = None THEN @
                                ELSE Remove(@, {order.id[1]}),
                            !.trades =
                                Append(@, [id |-> f.order_id,
                                           market |-> f.market,
                                           price |-> f.price,
                                           size |-> f.size,
                                           side |-> f.side,
                                           fee |-> f.fee,
                                           timestamp |-> f.timestamp])]
                    /\ bt_trace' = trace
                    /\ UNCHANGED bt_results
    /\ UNCHANGED <<bt_config, bt_ticks, bt_plan, bt_fails, bt_now, btRest>>

\* the equity sample of the tick, and on_timer when it is due; after the
\* last tick the strategy is shut down and the trades and the equity curve
\* are returned in the result
BtRecordEquity ==
    /\ bt_run.pc = "fill"
    /\ bt_run.pending = << >>
    /\ LET equity == FracPlus(FracOf(bt_config.initial_capital),
                              BtTotalPnl(bt_run.ctx.positions))
           equity_curve == Append(bt_run.equity_curve, <<bt_run.i, equity>>)
           timer_due == TimerDue(equity_curve)
           sampled == Append(bt_trace, <<"equity", bt_run.i>>)
           trace == IF timer_due THEN Append(sampled, <<"on_timer">>)
                    ELSE sampled
       IN  IF timer_due /\ bt_fails = "on_timer"
           THEN BtAbort("on_timer", trace)
           ELSE IF bt_run.i < Len(bt_ticks)
           THEN /\ bt_run' = [bt_run EXCEPT !.pc = "tick", !.i = @ + 1,
                                            !.equity_curve = equity_curve]
                /\ bt_trace' = trace
                /\ UNCHANGED bt_results
           ELSE IF bt_fails = "shutdown"
           THEN BtAbort("shutdown", Append(trace, <<"shutdown">>))
           ELSE /\ bt_run' = IdleRun
                /\ bt_trace' = Append(trace, <<"shutdown">>)
                /\ bt_results' =
                       Append(bt_results,
                              <<"Ok", [trades |-> bt_run.trades,
                                       equity_curve |-> equity_curve]>>)
    /\ UNCHANGED <<bt_config, bt_ticks, bt_plan, bt_fails, bt_now, btRest>>

\* the wall clock moves on
BtClock ==
    /\ bt_now < MaxNow
    /\ bt_now' = bt_now + 1
    /\ UNCHANGED <<bt_config, bt_ticks, bt_plan, bt_fails, bt_run,
                   bt_results, bt_trace, btRest>>

BtNext ==
    \/ BtStart
    \/ BtOnMarketTick
    \/ \E rand_above \in RandAbove(bt_config.fill_probability) :
          BtSimulateFill(rand_above)
    \/ BtRecordEquity
    \/ BtClock

BacktestSpec == BtInit /\ [][BtNext]_vars

\* --------------------------- submit_order with the validator switched on
\* Orders as a caller may build them with Order::new: every order type,
\* with and without a price, the price being any f64.
ValidatedTemplates ==
    { [venue |-> "v1", side |-> "Buy", order_type |-> type, price |-> price,
       size |-> 1] :
      type \in {"Limit", "Market", "PostOnly"},
      price \in {None, Some(NaN), Some(0), Some(5200), Some(MaxPrice + 1)} }

ValidatedCatalogs ==
    { [id \in OrderIds |->
          NewOrder(id, c[id].venue, "m1", c[id].side, c[id].order_type,
                   c[id].price, c[id].size)] :
      c \in [OrderIds -> ValidatedTemplates] }

\* ExecutionEngine::new with the default validator, as ExecInit
ValidatedInit ==
    /\ OrderIdle
    /\ CoordIdle
    /\ MoreIdle
    /\ catalog \in ValidatedCatalogs
    /\ config \in {c \in Configs : c.enable_validation}
    /\ policies = EnginePolicies
    /\ kill_switch_active = FALSE
    /\ orders = << >>
    /\ fills = << >>
    /\ positions = << >>
    /\ tokens = BurstSize
    /\ adapter_lock = 0
    /\ task = [t \in Tasks |-> IdleTask]
    /\ ks_last = "none"
    /\ risk_eval = NoEval

ValidatedNext ==
    \/ \E t \in Tasks, id \in OrderIds : SubmitBegin(t, id)
    \/ \E t \in Tasks : SubmitValidate(t)
    \/ \E t \in Tasks : SubmitRisk(t)
    \/ \E t \in Tasks : SubmitLookup(t)
    \/ \E t \in Tasks : SubmitRateLimit(t)
    \/ \E t \in Tasks : SubmitTrack(t)
    \/ \E t \in Tasks : SubmitPlace(t)
    \/ \E t \in Tasks : SubmitAck(t)
    \/ Refill

ValidatedSpec == ValidatedInit /\ [][ValidatedNext]_vars

\* ------------------------------------------------ OrderValidator::validate
\* the components with their own specifications above, all at rest
baseVars == <<execVars, orderVars, coordVars, lockVars, limVars, ctxVars,
              btVars>>

BaseIdle ==
    /\ EngineIdle
    /\ OrderIdle
    /\ CoordIdle
    /\ LockIdle
    /\ LimIdle
    /\ CtxIdle
    /\ BtIdle

\* The orders validate may be given: sizes and prices at, inside and outside
\* the validator's limits, identifiers empty or not.
ValOrders ==
    { NewOrder(1, venue, market, "Buy", type, price, size) :
      venue \in {"", "v1"}, market \in {"", "m1"},
      type \in {"Limit", "Market", "PostOnly"},
      price \in {None, Some(NaN), Some(-1), Some(0), Some(MinPrice),
                 Some(MaxPrice), Some(MaxPrice + 1)},
      size \in {NaN, -1, 0, MinSize, MaxSize, MaxSize + 1} }

valRest == <<baseVars, simVars, mmVars, stVars>>

ValRestIdle ==
    /\ BaseIdle
    /\ SimIdle
    /\ MmIdle
    /\ StIdle

\* OrderValidator::new, and an order to validate
ValInit ==
    /\ ValRestIdle
    /\ val_order \in ValOrders
    /\ val_result = << >>

\* a call of validate with the order
ValValidate ==
    /\ val_result = << >>
    /\ val_result' = <<Validate(val_order)>>
    /\ UNCHANGED <<val_order, valRest>>

ValNext == ValValidate

ValidatorSpec == ValInit /\ [][ValNext]_vars

\* ----------------------------------------- FillSimulator::simulate_fill
\* The orders and ticks the simulator may be given: every order type, with
\* and without a price, on either side of a quote that may lack a side.
SimOrders ==
    [id : {None}, market : {BtMarket}, side : {"Buy", "Sell"},
     order_type : {"Market", "Limit", "Stop", "StopLimit"},
     price : {None, Some(2), Some(3), Some(4)}, size : {1, 2}]

SimTicks ==
    [market : {BtMarket}, bid : {None, Some(2)}, ask : {None, Some(4)},
     last : {None, Some(3)}]

simRest == <<execVars, orderVars, coordVars, lockVars, limVars, ctxVars,
             valVars, mmVars, stVars>>

SimRestIdle ==
    /\ EngineIdle
    /\ OrderIdle
    /\ CoordIdle
    /\ LockIdle
    /\ LimIdle
    /\ CtxIdle
    /\ ValIdle
    /\ MmIdle
    /\ StIdle

\* FillSimulator::new inside BacktestEngine::new, and the arguments of a call
SimInit ==
    /\ SimRestIdle
    /\ bt_config \in BtConfigs
    /\ bt_ticks = << >>
    /\ bt_plan = << >>
    /\ bt_now = 1
    /\ bt_run = << >>
    /\ bt_results = << >>
    /\ bt_fails = << >>
    /\ bt_trace = << >>
    /\ sim_order \in SimOrders
    /\ sim_tick \in SimTicks
    /\ sim_result = << >>

\* a call of simulate_fill, the random draw falling either way
SimSimulateFill(rand_above) ==
    /\ sim_result = << >>
    /\ sim_result' = [fill |-> simulate_fill(sim_order, sim_tick, rand_above,
                                             bt_now),
                      rand_above |-> rand_above]
    /\ UNCHANGED <<sim_order, sim_tick, btVars, simRest>>

SimNext ==
    \E rand_above \in RandAbove(bt_config.fill_probability) :
        SimSimulateFill(rand_above)

SimulatorSpec == SimInit /\ [][SimNext]_vars

\* ------------------------------------------------- MarketMakerStrategy
\* A market maker quoting on a StrategyContext of its own.  Its callbacks
\* run one at a time on the context (&mut), each from start to end.
MmMarket == "m1"

\* MarketMakerConfig, with a quote of one unit and room for two
MmConfig ==
    [target_spread_bps |-> 20, quote_size |-> 1, max_position |-> 2,
     inventory_target |-> 0, skew_factor |-> Frac(1, 2),
     min_quote_interval_ms |-> 1]

\* the ticks routed to the strategy: its market or another, with or without
\* a quote
MmTicks ==
    [market : {MmMarket, "m2"}, bid : {None, Some(2)}, ask : {None, Some(4)},
     last : {None}]

FracMul(r, q) == Frac(r[1] * q[1], r[2] * q[2])
FracMinus(r, q) == FracPlus(r, <<-q[1], q[2]>>)
FracAbs(r) == <<Abs(r[1]), r[2]>>

\* MarketMakerStrategy::calculate_inventory_skew
calculate_inventory_skew(strategy, position) ==
    IF strategy.config.max_position <= 0 THEN FracOf(0)
    ELSE Frac(position - strategy.config.inventory_target,
              strategy.config.max_position)

\* MarketMakerStrategy::calculate_quotes: <<bid_price, ask_price>>
calculate_quotes(strategy, mid, position) ==
    LET base_spread ==
            FracOver(FracTimes(mid, strategy.config.target_spread_bps), 10000)
        inventory_skew == calculate_inventory_skew(strategy, position)
        spread_adjustment ==
            FracPlus(FracOf(1),
                     FracMul(FracAbs(inventory_skew),
                             strategy.config.skew_factor))
        adjusted_spread == FracMul(base_spread, spread_adjustment)
        skew_shift == FracOver(FracMul(inventory_skew, adjusted_spread), 2)
        half == FracOver(adjusted_spread, 2)
    IN  <<FracMinus(FracMinus(mid, half), skew_shift),
          FracMinus(FracPlus(mid, half), skew_shift)>>

\* MarketMakerStrategy::should_requote
should_requote(strategy, now) ==
    \/ strategy.last_quote_time = None
    \/ now - strategy.last_quote_time[1] >=
           strategy.config.min_quote_interval_ms

\* the quote the market maker builds: Order { .. , ..Default::default() },
\* whose id is None
MmQuote(market_id, side, price, size) ==
    [id |-> None, market |-> market_id, side |-> side,
     order_type |-> "Limit", price |-> Some(price), size |-> size]

\* get_open_orders_for_market: the keys of the context's orders of a market
MmOpenKeys(ctx, market_id) ==
    {k \in DOMAIN ctx.orders : ctx.orders[k].market = market_id}

\* StrategyContext::cancel_order for each of the ids: the context after them
MmCancelAll(ctx, ids) ==
    [ctx EXCEPT !.orders = Remove(@, ids),
                !.exec.orders = Remove(@, ids)]

\* StrategyContext::submit_order within a callback: the context after it; a
\* rejection by the risk engine leaves the context as it was
MmSubmit(ctx, order) ==
    LET decision ==
            Evaluate(ctx_risk.policies, ctx_risk.kill_switch_active,
                     [market_id |-> order.market,
                      current_position |->
                          GetOr(ctx_positions, order.market, NewPosition).size,
                      proposed_size |-> IF order.side = "Buy" THEN order.size
                                        ELSE -order.size,
                      inventory_value_usd |->
                          calculate_total_inventory_value(ctx_positions)])
    IN  IF ~decision.allowed THEN ctx
        ELSE [orders |-> Insert(ctx.orders, ctx.exec.next_order_id, order),
              exec |-> MockSubmitOrder(ctx.exec, order)]

mmRest == <<execVars, orderVars, coordVars, lockVars, limVars, btVars,
            valVars, simVars, stVars>>

\* StrategyContext::new and MarketMakerStrategy::new
MmInit ==
    /\ EngineIdle
    /\ OrderIdle
    /\ CoordIdle
    /\ LockIdle
    /\ LimIdle
    /\ BtIdle
    /\ ValIdle
    /\ SimIdle
    /\ StIdle
    /\ ctx_risk = [policies |-> CtxPolicies, kill_switch_active |-> FALSE]
    /\ ctx_positions = << >>
    /\ ctx_orders = << >>
    /\ ctx_exec = [orders |-> << >>, next_order_id |-> 1]
    /\ ctx_last = [op |-> "new"]
    /\ ctx_calls = 0
    /\ mm_strategy = [market_id |-> MmMarket, config |-> MmConfig,
                      last_quote_time |-> None]
    /\ mm_now = 0

\* the ids on_market_tick cancels: those the stored orders carry themselves
MmCancelIds(ctx, market_id) ==
    {ctx.orders[k].id[1] :
        k \in {j \in MmOpenKeys(ctx, market_id) : ctx.orders[j].id # None}}

\* MarketMakerStrategy::on_market_tick
MmOnMarketTick(market_id, tick) ==
    /\ ctx_calls < MaxCtxCalls
    /\ ctx_calls' = ctx_calls + 1
    /\ LET strategy == mm_strategy
           position == GetOr(ctx_positions, market_id, NewPosition).size
           mid == mid_price(tick)
           ctx == [orders |-> ctx_orders, exec |-> ctx_exec]
           skip == [op |-> "on_market_tick", market_id |-> market_id,
                    requoted |-> FALSE, result |-> <<"Ok">>]
       IN  IF \/ market_id # strategy.market_id
              \/ ~should_requote(strategy, mm_now)
              \/ Abs(position) >= strategy.config.max_position
              \/ mid[1] <= 0
           THEN /\ ctx_last' = skip
                /\ UNCHANGED <<ctx_orders, ctx_exec, mm_strategy>>
           ELSE LET quotes == calculate_quotes(strategy, mid, position)
                    ids == MmCancelIds(ctx, market_id)
                    cancelled == MmCancelAll(ctx, ids \cap DOMAIN ctx.exec.orders)
                    can_buy == position + strategy.config.quote_size
                                   <= strategy.config.max_position
                    can_sell == position - strategy.config.quote_size
                                    >= -strategy.config.max_position
                    bid == IF can_buy
                           THEN MmSubmit(cancelled,
                                         MmQuote(market_id, "Buy", quotes[1],
                                                 strategy.config.quote_size))
                           ELSE cancelled
                    ask == IF can_sell
                           THEN MmSubmit(bid,
                                         MmQuote(market_id, "Sell", quotes[2],
                                                 strategy.config.quote_size))
                           ELSE bid
                IN  IF ~(ids \subseteq DOMAIN ctx.exec.orders)
                    THEN /\ ctx_orders' = cancelled.orders
                         /\ ctx_exec' = cancelled.exec
                         /\ ctx_last' = [skip EXCEPT
                                            !.result = <<"OrderNotFound">>]
                         /\ UNCHANGED mm_strategy
                    ELSE /\ ctx_orders' = ask.orders
                         /\ ctx_exec' = ask.exec
                         /\ mm_strategy' =
                                [mm_strategy EXCEPT
                                    !.last_quote_time = Some(mm_now)]
                         /\ ctx_last' =
                                [op |-> "on_market_tick",
                                 market_id |-> market_id,
                                 requoted |-> TRUE,
                                 result |-> <<"Ok">>,
                                 before |-> MmOpenKeys(ctx, market_id),
                                 submitted |-> DOMAIN ask.orders
                                                  \ DOMAIN cancelled.orders]
    /\ UNCHANGED <<ctx_risk, ctx_positions, mm_now, mmRest>>

\* MarketMakerStrategy::on_fill: the fill is booked with update_position
MmOnFill(market_id, side, size, price) ==
    /\ CtxUpdatePosition(market_id, IF side = "Buy" THEN size ELSE -size,
                         price)

\* time passes
MmClock ==
    /\ mm_now < MaxNow
    /\ mm_now' = mm_now + 1
    /\ UNCHANGED <<ctxVars, mm_strategy, mmRest>>

MmNext ==
    \/ \E tick \in MmTicks : MmOnMarketTick(tick.market, tick)
    \/ \E side \in {"Buy", "Sell"}, price \in CtxPrices :
          MmOnFill(MmMarket, side, 1, price)
    \/ MmClock

MarketMakerSpec == MmInit /\ [][MmNext]_vars

\* ------------------- submissions and fills against the position limit
\* Two orders of one market enter through submit_order with the risk checks
\* on; record_fill gives each order fills up to its size and no further.
PosOrderIds == {1, 2}

\* a Buy that uses up the limit, and a smaller order on either side
PosCatalogs ==
    { [id \in PosOrderIds |->
          IF id = 1
          THEN NewOrder(id, "v1", "m1", "Buy", "Limit", Some(5200), 2)
          ELSE NewOrder(id, "v1", "m1", side, "Limit", Some(5200), 1)] :
      side \in {"Buy", "Sell"} }

\* ExecutionEngine::new and set_risk_engine, as ExecInit
PosInit ==
    /\ OrderIdle
    /\ CoordIdle
    /\ MoreIdle
    /\ catalog \in PosCatalogs
    /\ config = DefaultConfig
    /\ policies = EnginePolicies
    /\ kill_switch_active = FALSE
    /\ orders = << >>
    /\ fills = << >>
    /\ positions = << >>
    /\ tokens = BurstSize
    /\ adapter_lock = 0
    /\ task = [t \in Tasks |-> IdleTask]
    /\ ks_last = "none"
    /\ risk_eval = NoEval

\* a venue reports a fill of an order it was given, within the order's size
PosRecordFillBegin(t, id, size) ==
    /\ Free(t)
    /\ id \in DOMAIN orders
    /\ SumSeq(GetOr(fills, id, << >>)) + PendingFills(id) + size
           <= catalog[id].size
    /\ Begin(t, "record_fill", "rf_order", id, << >>, size)
    /\ UNCHANGED <<engineVars, kill_switch_active, orders, fills, positions,
                   tokens, adapter_lock>>

PosNext ==
    \/ \E t \in Tasks, id \in PosOrderIds : SubmitBegin(t, id)
    \/ \E t \in Tasks : SubmitValidate(t)
    \/ \E t \in Tasks : SubmitRisk(t)
    \/ \E t \in Tasks : SubmitLookup(t)
    \/ \E t \in Tasks : SubmitRateLimit(t)
    \/ \E t \in Tasks : SubmitTrack(t)
    \/ \E t \in Tasks : SubmitPlace(t)
    \/ \E t \in Tasks : SubmitAck(t)
    \/ Refill
    \/ \E t \in Tasks, id \in PosOrderIds, size \in FillSizes :
          PosRecordFillBegin(t, id, size)
    \/ \E t \in Tasks : RecordFillOrder(t)
    \/ \E t \in Tasks : RecordFillFills(t)
    \/ \E t \in Tasks : RecordFillPos(t)

PositionSpec == PosInit /\ [][PosNext]_vars

\* ------------------------------------------ the OrderTracker on its own
\* OrderTracker::remove_order
RemoveOrder(id) ==
    /\ id \in DOMAIN orders
    /\ orders' = Remove(orders, {id})
    /\ UNCHANGED <<engineVars, kill_switch_active, fills, positions, tokens,
                   adapter_lock, task>>

\* OrderTracker::clear_terminal_orders
ClearTerminalOrders ==
    /\ orders' = Remove(orders, {id \in DOMAIN orders :
                                    is_terminal(orders[id])})
    /\ UNCHANGED <<engineVars, kill_switch_active, fills, positions, tokens,
                   adapter_lock, task>>

\* The tracker's methods called from several tasks; each holds the lock of
\* one map for its whole body, record_fill the two locks one after the other.
TrackerNext ==
    \/ \E id \in OrderIds : TrackOrder(id)
    \/ \E id \in OrderIds, status \in OrderStatus : UpdateStatus(id, status)
    \/ \E t \in Tasks, id \in OrderIds, size \in FillSizes :
          RecordFillBegin(t, id, size)
    \/ \E t \in Tasks : RecordFillOrder(t)
    \/ \E t \in Tasks : RecordFillFills(t)
    \/ \E t \in Tasks : RecordFillPos(t)
    \/ \E id \in OrderIds : RemoveOrder(id)
    \/ ClearTerminalOrders

TrackerSpec == ExecInit /\ [][TrackerNext]_vars

\* ------------------------------------------ the storage engine's buffer
\* config.ingestion.max_buffer_size, kept small
StMaxBufferSize == 2
\* how many metrics the callers offer in one behaviour
StMaxMetrics == 4
\* the metric points, told apart by a number
StMetrics == 1..StMaxMetrics

stRest == <<baseVars, valVars, simVars, mmVars>>

StRestIdle ==
    /\ BaseIdle
    /\ ValIdle
    /\ SimIdle
    /\ MmIdle

\* StorageEngine::new: an empty buffer; the metrics table starts empty
StInit ==
    /\ StRestIdle
    /\ StIdle

\* StorageEngine::buffer_metric: Err when the buffer is full, else push.
\* flush_buffer borrows the engine exclusively, so no buffer_metric runs
\* while a flush is between its two steps.
StBufferMetric(metric) ==
    /\ st_flush = << >>
    /\ metric \notin st_accepted
    /\ IF Len(st_buffer) >= StMaxBufferSize
       THEN /\ st_result' = <<"buffer_metric", metric, "Err">>
            /\ UNCHANGED <<st_buffer, st_accepted>>
       ELSE /\ st_buffer' = Append(st_buffer, metric)
            /\ st_accepted' = st_accepted \cup {metric}
            /\ st_result' = <<"buffer_metric", metric, "Ok">>
    /\ UNCHANGED <<st_db, st_flush, stRest>>

\* StorageEngine::flush_buffer up to the release of the buffer lock:
\* Ok(0) on an empty buffer, else the whole buffer is taken out
StFlushTake ==
    /\ st_flush = << >>
    /\ IF st_buffer = << >>
       THEN /\ st_result' = <<"flush_buffer", 0, "Ok">>
            /\ UNCHANGED <<st_buffer, st_flush>>
       ELSE /\ st_flush' = st_buffer
            /\ st_buffer' = << >>
            /\ st_result' = <<"flush_buffer", Len(st_buffer), "taken">>
    /\ UNCHANGED <<st_db, st_accepted, stRest>>

\* insert_metrics_batch and the return of flush_buffer: the one INSERT
\* statement stores every row or, on a pool or query error, none; the
\* error is passed on with `?` and the taken batch is dropped.
StFlushInsert(insert_ok) ==
    /\ st_flush # << >>
    /\ IF insert_ok
       THEN /\ st_db' = st_db \cup {st_flush[i] : i \in 1..Len(st_flush)}
            /\ st_result' = <<"flush_buffer", Len(st_flush), "Ok">>
       ELSE /\ st_result' = <<"flush_buffer", Len(st_flush), "Err">>
            /\ UNCHANGED st_db
    /\ st_flush' = << >>
    /\ UNCHANGED <<st_buffer, st_accepted, stRest>>

StorageNext ==
    \/ \E metric \in StMetrics : StBufferMetric(metric)
    \/ StFlushTake
    \/ \E insert_ok \in BOOLEAN : StFlushInsert(insert_ok)

StorageSpec == StInit /\ [][StorageNext]_vars


\* ================================================================ claims
Tracked == DOMAIN orders
Calls == DOMAIN task
Returns(t) == task[t].pc # "done" /\ task'[t].pc = "done"
Moves(t) == task'[t] # task[t]

\* C1: terminal order states are absorbing: once the status of a tracked
\* order is Filled, Cancelled, Rejected or Expired, no later operation
\* (update_status, record_fill, submit_order, cancel_order, get_status)
\* changes it.  A caller tracking its own Pending copy again with
\* track_order is not among the operations of the claim.
C1_TerminalAbsorbing ==
    [][\A id \in Tracked \cap DOMAIN orders' :
          (orders[id].status \in TerminalStatus /\ orders'[id] # catalog[id])
              => orders'[id].status = orders[id].status]_vars

\* C2: every tracked order (of positive size) has 0 <= filled_size <= size
\* after any sequence of record_fill calls.
C2_FilledWithinSize ==
    \A id \in Tracked :
        orders[id].size > 0
            => 0 <= orders[id].filled_size
               /\ orders[id].filled_size <= orders[id].size

\* C3: in every reachable state a tracked order (of positive size) is Filled
\* if and only if its filled_size equals its size.
C3_FilledIffComplete ==
    \A id \in Tracked :
        orders[id].size > 0
            => (orders[id].status = "Filled"
                   <=> orders[id].filled_size = orders[id].size)

\* the decision of the rules alone, which is what an engine whose switch
\* was never triggered returns
RulesDecision(rules, ctx) ==
    LET violated == EvaluateRules(rules, ctx, 1, << >>)
    IN  IF violated = << >> THEN RiskDecisionAllow
        ELSE RiskDecisionReject(violated)

\* C4: kill-switch dominance: the switch is active exactly when the last of
\* trigger_kill_switch / reset_kill_switch was a trigger (so repeating
\* either changes nothing); an evaluation made then returns exactly
\* reject(["KillSwitch (active)"]) whatever the context and the rules, and
\* an evaluation made initially or after a reset returns what the rules
\* alone decide.
C4_KillSwitchDominance ==
    /\ kill_switch_active <=> ks_last = "trigger"
    /\ risk_eval.done =>
          IF risk_eval.ks = "trigger"
          THEN risk_eval.decision = RiskDecisionReject(<<KillSwitchActiveMsg>>)
          ELSE risk_eval.decision = RulesDecision(policies, risk_eval.ctx)

\* an evaluation under an active switch of a context the rules would allow
C4_Witness ==
    /\ risk_eval.done /\ risk_eval.ks = "trigger"
    /\ policies # << >>
    /\ RulesDecision(policies, risk_eval.ctx).allowed
    /\ ~risk_eval.decision.allowed

\* a rule is violated by a context, in the words of the claim
RuleViolated(rule, ctx) ==
    IF rule.type = "PositionLimit"
    THEN /\ rule.market_id = None \/ rule.market_id = Some(ctx.market_id)
         /\ Abs(ctx.current_position + ctx.proposed_size) > rule.max
    ELSE IF rule.type = "InventoryLimit"
    THEN ctx.inventory_value_usd > rule.max
    ELSE rule.enabled

\* the entry of the violation list is the one of that rule
EntryOf(entry, rule) ==
    /\ entry.market = rule.market_id
    /\ entry.max = rule.max
    /\ entry.policy = IF rule.type = "KillSwitch"
                      THEN "KillSwitch: enabled in policy" ELSE rule.type

\* C5: with the kill-switch inactive, evaluate allows (with an empty list)
\* iff no applicable rule is violated, and otherwise rejects with exactly
\* one entry per violated rule, in the order of the rule list; a
\* PositionLimit is violated iff |current + proposed| > max_size.
C5_EvaluateCollectsViolations ==
    (risk_eval.done /\ risk_eval.ks # "trigger") =>
        LET ctx == risk_eval.ctx
            list == risk_eval.decision.violated_policies
            bad == {i \in 1..Len(policies) : RuleViolated(policies[i], ctx)}
            nth(k) == CHOOSE i \in bad :
                          Cardinality({j \in bad : j <= i}) = k
        IN  /\ risk_eval.decision.allowed <=> bad = {}
            /\ Len(list) = Cardinality(bad)
            /\ \A k \in 1..Len(list) : EntryOf(list[k], policies[nth(k)])

\* an evaluation that two rules of different kinds reject
C5_Witness ==
    /\ risk_eval.done /\ risk_eval.ks # "trigger"
    /\ Len(risk_eval.decision.violated_policies) = 2
    /\ risk_eval.decision.violated_policies[1].policy
          # risk_eval.decision.violated_policies[2].policy

SubmitSteps ==
    <<"validated", "risk_allowed", "adapter_found", "token", "tracked",
      "place_order">>

IsPrefix(s, q) == Len(s) <= Len(q) /\ \A i \in 1..Len(s) : s[i] = q[i]

\* C6: a submit_order with validation and risk checks enabled goes through
\* validation, risk evaluation, adapter lookup, rate limit, tracking as
\* Submitting and place_order in this order, each at most once: the order is
\* tracked only after a token was granted, and place_order is called only
\* once the order was validated, allowed and tracked as Submitting.
C6_SubmitStepOrder ==
    \A t \in Calls :
        (task[t].op = "submit_order" /\ config = DefaultConfig) =>
            /\ IsPrefix(task[t].trace, SubmitSteps)
            /\ task[t].pc \in {"place", "ack"} =>
                  /\ task[t].order.status = "Submitting"
                  /\ task[t].id \in Tracked
                  /\ Len(task[t].trace) >= 5

\* a submission that went all the way and returned the ack
C6_Witness ==
    \E t \in Calls :
        /\ task[t].op = "submit_order" /\ config = DefaultConfig
        /\ task[t].pc = "done" /\ task[t].result[1] = "Ok"
        /\ task[t].trace = SubmitSteps

NoTraceErrors == {"ValidationError", "RiskRejected", "VenueNotSupported"}

\* C7: a submit_order that returns ValidationError, RiskRejected or
\* VenueNotSupported has not tracked the order, taken no token and called
\* no adapter, and has left the position ledger alone: these errors are
\* returned from the first three steps only, and no step of the call up to
\* there writes tracker, limiter, adapter or ledger.
C7_RejectedSubmitLeavesNoTrace ==
    [][\A t \in Calls :
          /\ (/\ task[t].op = "submit_order" /\ Returns(t)
              /\ task'[t].result[1] = "Err"
              /\ task'[t].result[2] \in NoTraceErrors) =>
                 /\ task[t].pc \in {"validate", "risk", "lookup"}
                 /\ \A i \in 1..Len(task'[t].trace) :
                       task'[t].trace[i] \notin
                           {"token", "tracked", "place_order"}
          /\ (/\ Moves(t) /\ task'[t].op = "submit_order"
              /\ task'[t].pc \in {"validate", "risk", "lookup", "ratelimit",
                                  "done"}
              /\ task[t].pc # "ack") =>
                 UNCHANGED <<orders, fills, positions, tokens,
                             adapter_lock>>]_vars

\* a submission rejected by the risk check while the ledger holds a position
C7_Witness ==
    \E t \in Calls :
        /\ task[t].op = "submit_order" /\ task[t].pc = "done"
        /\ task[t].result[1] = "Err"
        /\ task[t].result[2] = "RiskRejected"
        /\ positions # << >>

\* C8: cancel_order finding the order in a terminal status returns
\* InvalidOrderState with that status and the operation "cancel", calls no
\* adapter, takes no token and leaves the order as it is.
C8_CancelTerminalRefused ==
    [][\A t \in Calls :
          (/\ task[t].op = "cancel_order" /\ task[t].pc = "get" /\ Moves(t)
           /\ task[t].id \in Tracked
           /\ orders[task[t].id].status \in TerminalStatus) =>
              /\ task'[t].pc = "done"
              /\ task'[t].result = <<"Err", "InvalidOrderState",
                                     orders[task[t].id].status, "cancel">>
              /\ task'[t].trace = << >>
              /\ UNCHANGED <<orders, fills, positions, tokens,
                             adapter_lock>>]_vars

\* a cancel of an Expired order was refused
C8_Witness ==
    \E t \in Calls :
        /\ task[t].op = "cancel_order" /\ task[t].pc = "done"
        /\ task[t].result = <<"Err", "InvalidOrderState", "Expired", "cancel">>

\* C9: cancel_order on a non-terminal order sets the status Cancelling
\* before it calls adapter.cancel_order; when the adapter answers, the call
\* sets the status Cancelled iff the ack has success = true, and with
\* success = false it returns Ok(ack) and leaves the status it found.
C9_CancelTransitions ==
    [][\A t \in Calls :
          (task[t].op = "cancel_order" /\ Moves(t)
              /\ task'[t].op = "cancel_order") =>
              /\ task[t].pc = "mark" =>
                    /\ orders'[task[t].id].status = "Cancelling"
                    /\ task'[t].pc = "call"
              /\ task[t].pc = "call" =>
                    /\ task[t].trace = <<"token", "cancelling">>
                    /\ task'[t].trace = <<"token", "cancelling", "cancel_order">>
                    /\ UNCHANGED orders
              /\ task[t].pc = "ack" =>
                    IF task'[t].result = <<"Ok", task[t].id, "success">>
                    THEN orders'[task[t].id].status = "Cancelled"
                    ELSE /\ UNCHANGED orders
                         /\ task'[t].result \in
                               {<<"Ok", task[t].id, "failure">>, AdapterError}]_vars

\* a cancel the venue refused: Ok(ack) with the order still Cancelling
C9_Witness ==
    \E t \in Calls :
        /\ task[t].op = "cancel_order" /\ task[t].pc = "done"
        /\ task[t].result = <<"Ok", task[t].id, "failure">>
        /\ orders[task[t].id].status = "Cancelling"

\* C10: when submit_order returns Ok(ack), the order tracked under
\* ack.order_id has the status ack.status.
C10_AckStatusStored ==
    [][\A t \in Calls :
          (/\ task[t].op = "submit_order" /\ Returns(t)
           /\ task'[t].result[1] = "Ok") =>
              /\ task'[t].result[2] \in DOMAIN orders'
              /\ orders'[task'[t].result[2]].status = task'[t].result[3]]_vars

\* a submission acknowledged as Working, and tracked so
C10_Witness ==
    \E t \in Calls :
        /\ task[t].op = "submit_order" /\ task[t].pc = "done"
        /\ task[t].result = <<"Ok", task[t].id, "Working">>
        /\ orders[task[t].id].status = "Working"

\* the status a call gives the order before it calls the adapter
InFlight(op) == IF op = "submit_order" THEN "Submitting" ELSE "Cancelling"

\* C11: an adapter error leaves the order in its in-flight status: the call
\* sets Submitting (submit_order) or Cancelling (cancel_order) before calling
\* the adapter, taking the adapter writes nothing, and when place_order or
\* cancel_order fails the call returns that error and leaves the tracked
\* order as it is, so an order found Submitting / Cancelling stays so.
C11_AdapterErrorKeepsInFlight ==
    [][\A t \in Calls :
          (task[t].op \in {"submit_order", "cancel_order"} /\ Moves(t)
              /\ task'[t].op = task[t].op) =>
              /\ task[t].pc \in {"track", "mark"} =>
                    orders'[task[t].id].status = InFlight(task[t].op)
              /\ task[t].pc \in {"place", "call"} =>
                    /\ task'[t].pc = "ack"
                    /\ UNCHANGED orders
              /\ (task[t].pc = "ack" /\ task'[t].result[1] = "Err") =>
                    /\ task'[t].result = AdapterError
                    /\ task[t].id \in Tracked
                    /\ orders'[task[t].id] = orders[task[t].id]
                    /\ UNCHANGED <<fills, positions>>]_vars

\* place_order failed and left the order Submitting; the cancel_order that
\* followed failed too and left it Cancelling
C11_Witness ==
    \E t, u \in Calls :
        /\ task[t].op = "submit_order" /\ task[t].pc = "done"
        /\ task[t].result = AdapterError
        /\ task[t].trace = SubmitSteps
        /\ task[u].op = "cancel_order" /\ task[u].pc = "done"
        /\ task[u].result = AdapterError
        /\ task[u].trace = <<"token", "cancelling", "cancel_order">>
        /\ orders[task[u].id].status = "Cancelling"

\* the recorded fills of an order, counted as the ledger counts them
SignedFills(id) ==
    IF orders[id].side = "Buy" THEN SumSeq(fills[id]) ELSE -SumSeq(fills[id])

\* the recorded fills of Buy orders in a market minus those of Sell orders
RecordedFills(m) ==
    SumValues([id \in {i \in DOMAIN fills : orders[i].market = m}
                  |-> SignedFills(id)])

\* fills the tracker has stored in record_fill calls that have not returned
UnreturnedFills(m) ==
    SumValues([t \in {u \in Calls : /\ task[u].op = "record_fill"
                                     /\ task[u].pc = "rf_pos"
                                     /\ orders[task[u].id].market = m}
                  |-> IF orders[task[t].id].side = "Buy" THEN task[t].size
                      ELSE -task[t].size])

RECURSIVE FillsSize(_)
FillsSize(fs) == IF fs = << >> THEN 0 ELSE fs[1][1] + FillsSize(Tail(fs))

RECURSIVE FillsValue(_)
FillsValue(fs) ==
    IF fs = << >> THEN 0 ELSE fs[1][1] * fs[1][2] + FillsValue(Tail(fs))

\* C13: volume-weighted price law: after record_fill calls with the fills
\* (s_i, p_i), s_i > 0, on one order, filled_size is the sum of the s_i and
\* avg_fill_price * filled_size = sum of s_i * p_i in exact arithmetic;
\* before the first fill there is no average.
C13_VolumeWeightedPrice ==
    IF order_fills = << >>
    THEN filled_order = << >> \/ filled_order.avg_fill_price = None
    ELSE /\ filled_order.filled_size = FillsSize(order_fills)
         /\ filled_order.avg_fill_price # None
         /\ LET avg == filled_order.avg_fill_price[1]
            IN  /\ avg[2] > 0
                /\ avg[1] * filled_order.filled_size
                       = FillsValue(order_fills) * avg[2]

\* three fills at three prices whose average is not a whole price
C13_Witness ==
    /\ Len(order_fills) = 3
    /\ Cardinality({order_fills[i][2] : i \in 1..3}) = 3
    /\ filled_order.avg_fill_price[1][2] > 1

\* C14: get_status finding the tracked order terminal returns that status
\* without calling the adapter and without touching the tracker; finding it
\* not terminal it calls adapter.get_order_status exactly once, and the
\* status the adapter answers is stored as the tracked status and returned.
C14_GetStatusCache ==
    [][\A t \in Calls :
          (task[t].op = "get_status" /\ Moves(t)
              /\ task'[t].op = "get_status" /\ task[t].id \in Tracked) =>
              /\ (task[t].pc = "get"
                      /\ orders[task[t].id].status \in TerminalStatus) =>
                    /\ task'[t].pc = "done"
                    /\ task'[t].result =
                          <<"Ok", task[t].id, orders[task[t].id].status>>
                    /\ task'[t].trace = << >>
                    /\ UNCHANGED <<orders, fills, positions, tokens,
                                   adapter_lock>>
              /\ (task[t].pc = "get"
                      /\ orders[task[t].id].status \notin TerminalStatus
                      /\ orders[task[t].id].venue \in RegisteredVenues) =>
                    /\ task'[t].pc = "call"
                    /\ UNCHANGED <<orders, fills, positions, tokens>>
              /\ task[t].pc = "call" =>
                    /\ task[t].trace = << >>
                    /\ task'[t].pc = "ack"
                    /\ UNCHANGED <<orders, fills, positions, tokens>>
              /\ task[t].pc = "ack" =>
                    /\ task'[t].trace = <<"get_order_status">>
                    /\ task'[t].result[1] = "Ok" =>
                          /\ task'[t].result[2] = task[t].id
                          /\ orders'[task[t].id].status = task'[t].result[3]
                    /\ UNCHANGED <<fills, positions, tokens>>]_vars

\* one get_status asked the venue and stored Filled; the next one answered
\* Filled from the tracker without a call
C14_Witness ==
    \E t, u \in Calls :
        /\ task[t].op = "get_status" /\ task[t].pc = "done"
        /\ task[t].trace = <<"get_order_status">>
        /\ task[t].result = <<"Ok", task[t].id, "Filled">>
        /\ task[u].op = "get_status" /\ task[u].pc = "done"
        /\ task[u].trace = << >>
        /\ task[u].result = <<"Ok", task[u].id, "Filled">>
        /\ orders[task[u].id].status = "Filled"

\* the calls into the adapter that have not answered yet
InAdapter == {t \in Calls : task[t].pc = "ack"}

\* C20: the engine's calls into the adapter of a venue (place_order,
\* cancel_order, get_order_status) never overlap: at most one call is in
\* progress, made by the task holding the adapter's mutex, and a call
\* starts only when no other is in progress.
C20_AdapterCallsSerialized ==
    /\ [](/\ Cardinality(InAdapter) <= 1
          /\ \A t \in InAdapter :
                /\ adapter_lock = t
                /\ task[t].trace[Len(task[t].trace)] \in
                      {"place_order", "cancel_order", "get_order_status"}
          /\ InAdapter = {} => adapter_lock = 0)
    /\ [][\A t \in Calls :
             (task[t].pc # "ack" /\ task'[t].pc = "ack") =>
                 InAdapter = {}]_vars

\* a cancel_order waits for the adapter while a place_order is in progress
C20_Witness ==
    \E t, u \in Calls :
        /\ task[t].op = "submit_order" /\ task[t].pc = "ack"
        /\ task[u].op = "cancel_order" /\ task[u].pc = "call"
        /\ adapter_lock = t

\* ------------------------------------------------ claims, the coordinator
CoordCalls == DOMAIN coord_call
CallReturns(c) ==
    coord_call'[c] # coord_call[c] /\ coord_call'[c].pc = "done"
CallbackStarts(c) ==
    coord_call'[c] # coord_call[c] /\ coord_call'[c].pc = "callback"

\* how often x is in a list
Occurrences(list, x) == Cardinality({k \in DOMAIN list : list[k] = x})

\* strategy id is registered with market m among its markets
Subscribed(id, m) ==
    /\ id \in DOMAIN strategy_markets
    /\ Occurrences(strategy_markets[id], m) > 0

\* the callbacks of a call that went to a strategy object
Deliveries(trace, strategy) ==
    Cardinality({k \in DOMAIN trace : trace[k].strategy = strategy})

\* C15: coordinator isolation and exactly-once delivery: when
\* route_market_tick(m, tick) returns Ok, on_market_tick was invoked exactly
\* once on each strategy registered with m among its markets, and on no
\* strategy that is not subscribed to m.
C15_TickExactlyOnce ==
    [][\A c \in CoordCalls :
          (/\ CallReturns(c) /\ coord_call'[c].op = "route_market_tick"
           /\ coord_call'[c].result = <<"Ok">>) =>
              LET m == coord_call'[c].market
                  trace == coord_call'[c].trace
              IN  /\ \A id \in DOMAIN strategies :
                        Subscribed(id, m) =>
                            Deliveries(trace, strategies[id]) = 1
                  /\ \A k \in DOMAIN trace :
                        /\ trace[k].cb = "on_market_tick"
                        /\ Subscribed(trace[k].id, m)]_vars

Ids(trace) == [k \in DOMAIN trace |-> trace[k].id]

\* the ids of a list that have a strategy and a context
Visible(ids) ==
    SelectSeq(ids, LAMBDA id : id \in DOMAIN strategies
                                  /\ id \in DOMAIN contexts)

SubscribersOf(subs, m) == GetOr(subs, m, << >>)

\* C16: route_market_tick(m, tick) invokes on_market_tick on the subscribers
\* of m in the order in which their registrations subscribed them (a
\* registration appends its id to the list of each of its markets, an
\* unregistration takes an id out and leaves the others in their order);
\* when an invocation returns an error the fan-out stops there: no later
\* subscriber is invoked for that tick and route_market_tick returns that
\* error.
C16_FanOutInOrder ==
    [][/\ \A c \in CoordCalls :
            (coord_call'[c] # coord_call[c]
                /\ coord_call'[c].op = "route_market_tick") =>
               LET call == coord_call'[c]
                   n == Len(call.trace)
               IN  /\ CallFree(c) =>
                         call.strategy_ids =
                             SubscribersOf(market_subscriptions, call.market)
                   /\ IsPrefix(Ids(call.trace), Visible(call.strategy_ids))
                   /\ \A k \in DOMAIN call.trace :
                         /\ call.trace[k].cb = "on_market_tick"
                         /\ call.trace[k].strategy
                               = strategies[call.trace[k].id]
                         /\ k < n => call.answers[k]
                   /\ call.pc = "callback" => Len(call.answers) = n - 1
                   /\ (call.pc = "done" /\ call.result = <<"Ok">>) =>
                         /\ Ids(call.trace) = Visible(call.strategy_ids)
                         /\ Len(call.answers) = n
                         /\ \A k \in 1..n : call.answers[k]
                   /\ (call.pc = "done" /\ call.result # <<"Ok">>) =>
                         /\ n > 0 /\ Len(call.answers) = n
                         /\ ~call.answers[n]
                         /\ call.result = CallbackError(call.trace[n])
                         /\ call.trace = coord_call[c].trace
       /\ \A c \in CoordCalls, m \in CoordMarkets :
            LET old == SubscribersOf(market_subscriptions, m)
                new == SubscribersOf(market_subscriptions', m)
            IN  /\ (coord_call[c].op = "register_strategy"
                        /\ CallReturns(c)) =>
                      /\ IsPrefix(old, new)
                      /\ \A k \in (Len(old) + 1)..Len(new) :
                            new[k] = coord_call[c].id
                /\ (coord_call'[c].op = "unregister_strategy"
                        /\ coord_call'[c] # coord_call[c]) =>
                      new \in {old, Retain(old, coord_call'[c].id)}]_vars

\* one tick went to two subscribers, the one registered first before the
\* other; for another tick the first subscriber answered with an error, which
\* was returned without the second being invoked
C16_Witness ==
    \E c, d \in CoordCalls :
        LET full == coord_call[c]
            cut == coord_call[d]
        IN  /\ full.op = "route_market_tick" /\ full.pc = "done"
            /\ full.result = <<"Ok">>
            /\ Len(full.trace) = 2
            /\ full.trace[1].strategy < full.trace[2].strategy
            /\ cut.op = "route_market_tick" /\ cut.pc = "done"
            /\ Len(cut.strategy_ids) = 2
            /\ Len(cut.trace) = 1
            /\ cut.result = CallbackError(cut.trace[1])

\* C17: registration keeps the indices of the coordinator consistent, also
\* when a registered id is registered again: between the calls strategies,
\* contexts and strategy_markets have the same keys, and an id is in
\* market_subscriptions[m] exactly once when m is among strategy_markets[id]
\* and not at all otherwise.
C17_IndicesConsistent ==
    (\A c \in CoordCalls : CallFree(c)) =>
        /\ DOMAIN strategies = DOMAIN contexts
        /\ DOMAIN strategies = DOMAIN strategy_markets
        /\ \A m \in DOMAIN market_subscriptions :
              \A k \in DOMAIN market_subscriptions[m] :
                  LET id == market_subscriptions[m][k]
                  IN  /\ Subscribed(id, m)
                      /\ Occurrences(market_subscriptions[m], id) = 1
        /\ \A id \in DOMAIN strategy_markets :
              \A k \in DOMAIN strategy_markets[id] :
                  Occurrences(SubscribersOf(market_subscriptions,
                                            strategy_markets[id][k]), id) = 1

\* C18: unregister_strategy(id) on a registered id invokes shutdown of that
\* strategy exactly once, with its own context, and when it returns the id
\* is in none of strategies, contexts, strategy_markets and in no list of
\* market_subscriptions; no later callback reaches a strategy that was shut
\* down.
C18_UnregisterRemovesAll ==
    /\ [][\A c \in CoordCalls :
             (coord_call'[c] # coord_call[c]
                 /\ coord_call'[c].op = "unregister_strategy"
                 /\ coord_call'[c].result # StrategyNotFound) =>
                LET call == coord_call'[c]
                IN  /\ Len(call.trace) = 1
                    /\ call.trace[1].cb = "shutdown"
                    /\ call.trace[1].context = call.trace[1].strategy
                    /\ CallFree(c) =>
                          call.trace[1].strategy = strategies[call.id]
                    /\ call.id \notin DOMAIN strategies'
                    /\ call.id \notin DOMAIN contexts'
                    /\ call.id \notin DOMAIN strategy_markets'
                    /\ \A m \in DOMAIN market_subscriptions' :
                          Occurrences(market_subscriptions'[m], call.id) = 0]_vars
    /\ [](\A c \in CoordCalls :
             (coord_call[c].pc = "callback"
                 /\ coord_call[c].running.cb # "shutdown") =>
                coord_call[c].running.strategy \notin shut_down)

\* the calls awaiting a callback
InCallback == {c \in CoordCalls : coord_call[c].pc = "callback"}

\* C19: at most one callback of a strategy (initialize, on_market_tick,
\* on_fill, on_cancel, on_timer, shutdown) is executing at any moment: the
\* coordinator starts a callback on a strategy only when no callback on that
\* strategy is awaiting its return.
C19_CallbacksSerialized ==
    /\ [](\A c, d \in InCallback :
             c # d => coord_call[c].running.strategy
                         # coord_call[d].running.strategy)
    /\ [][\A c \in CoordCalls :
             CallbackStarts(c) =>
                \A d \in InCallback \ {c} :
                    coord_call[d].running.strategy
                        # coord_call'[c].running.strategy]_vars

\* a strategy is in on_market_tick for one caller after its on_fill for
\* another caller has returned
C19_Witness ==
    \E c, d \in CoordCalls :
        /\ coord_call[c].pc = "callback"
        /\ coord_call[c].running.cb = "on_market_tick"
        /\ coord_call[d].pc = "done" /\ coord_call[d].op = "route_fill"
        /\ coord_call[d].trace # << >>
        /\ coord_call[d].trace[1].strategy = coord_call[c].running.strategy

\* ------------------------------------------------------ claims, the locks
LockCalls == DOMAIN lock_call

\* C21: every engine operation acquires the shared locks in the order risk
\* engine -> positions ledger -> order tracker -> adapter, and no operation
\* holds two of these locks at the same time: the locks an operation holds
\* are at most one, and were taken in the order of their ranks.
C21_LockOrder ==
    \A t \in LockCalls :
        /\ Len(lock_call[t].held) <= 1
        /\ \A i, j \in 1..Len(lock_call[t].held) :
               i < j => LockRank(lock_call[t].held[i])
                            < LockRank(lock_call[t].held[j])

\* ------------------------------------------------- claims, the rate limiter
LimCalls == DOMAIN lim_call
\* the step is a try_check / a check of task t coming back
TryCheckReturns(t) ==
    /\ lim_call'[t].op = "try_check"
    /\ lim_call'[t] # lim_call[t]
CheckReturns(t) ==
    /\ lim_call'[t].op = "check"
    /\ lim_call'[t].pc = "done"
    /\ lim_call'[t] # lim_call[t]
PermitsInWindow == SumSeq(lim_window)

\* C22: try_check never suspends: it returns Ok after consuming one token
\* when one is available, and otherwise RateLimitExceeded carrying the
\* venue id, leaving the bucket as it was; on a fresh limiter of burst b,
\* with no time passing, exactly the first b try_checks succeed and the
\* next fails.
C22_TryCheck ==
    /\ [](lim_fresh # << >> /\ lim_fresh.fresh
            => \A i \in 1..Len(lim_fresh.results) :
                   lim_fresh.results[i] = "Ok"
                       <=> i <= lim_config.burst_size)
    /\ [][\A t \in LimCalls :
            TryCheckReturns(t) =>
                /\ lim_call'[t].pc = "done"
                /\ IF Available > 0
                   THEN /\ lim_call'[t].result = <<"Ok">>
                        /\ Available' = Available - 1
                   ELSE /\ lim_call'[t].result
                               = <<"RateLimitExceeded", lim_config.venue_id>>
                        /\ lim_debt' = lim_debt
                        /\ Available' = 0]_vars

C22_Witness ==
    /\ lim_fresh # << >>
    /\ lim_fresh.fresh
    /\ lim_config.burst_size = MaxBurst
    /\ Len(lim_fresh.results) = MaxBurst + 1
    /\ lim_fresh.results[MaxBurst + 1] = "RateLimitExceeded"
    /\ \E t \in LimCalls : lim_call[t].result[1] = "RateLimitExceeded"

C24_PermitsPerSecond ==
    lim_config # << >>
        => PermitsInWindow
               <= lim_config.requests_per_second + lim_config.burst_size

C24_Witness ==
    /\ lim_config # << >>
    /\ lim_config.requests_per_second = MaxRps
    /\ lim_config.burst_size = MaxBurst
    /\ PermitsInWindow = MaxRps + MaxBurst
    /\ \E t \in LimCalls : lim_call[t].waited /\ lim_call[t].pc = "done"

\* C25: the tasks waiting in check get their tokens in the order in which
\* they arrived, and no later caller of check or try_check gets a token
\* ahead of a waiting task: while tasks wait, a permit goes to the task
\* at the head of the queue.
C25_WaitersFirst ==
    [][lim_debt' > lim_debt /\ lim_queue # << >>
           => lim_queue' = Tail(lim_queue)]_vars

\* ------------------------------------------- claims, the strategy context
\* the step is a call of the named operation on the context
CtxCalled(op) == ctx_calls' = ctx_calls + 1 /\ ctx_last'.op = op
PositionSize(market_id) ==
    IF market_id \in DOMAIN ctx_positions
    THEN ctx_positions[market_id].size ELSE 0

\* C26: StrategyContext.submit_order evaluates risk before it touches the
\* execution engine, with current_position the context's position size for
\* order.market (0 if there is none) and proposed_size +size for a buy and
\* -size for a sell.  When the decision is a rejection it returns
\* RiskRejected with the violated policies and leaves the open-orders map,
\* the execution engine and the position map as they were; when it allows,
\* the order is submitted and the returned id is the new key of the
\* open-orders map.
C26_RiskBeforeSubmit ==
    [][CtxCalled("submit_order") =>
        LET order == ctx_last'.order
            decision ==
                Evaluate(ctx_risk.policies, ctx_risk.kill_switch_active,
                         [market_id |-> order.market,
                          current_position |-> PositionSize(order.market),
                          proposed_size |->
                              IF order.side = "Buy" THEN order.size
                              ELSE -order.size,
                          inventory_value_usd |->
                              calculate_total_inventory_value(ctx_positions)])
        IN  IF decision.allowed
            THEN /\ ctx_last'.result[1] = "Ok"
                 /\ ctx_last'.result[2] \notin DOMAIN ctx_orders
                 /\ ctx_orders'
                        = Insert(ctx_orders, ctx_last'.result[2], order)
                 /\ ctx_last'.result[2] \in DOMAIN ctx_exec'.orders
                 /\ ctx_positions' = ctx_positions
            ELSE /\ ctx_last'.result
                        = <<"RiskRejected", decision.violated_policies>>
                 /\ decision.violated_policies # << >>
                 /\ UNCHANGED <<ctx_orders, ctx_exec, ctx_positions>>]_vars

\* a buy of 2 was rejected for the position limit at a position of 1, after
\* an order had been accepted
C26_Witness ==
    /\ ctx_last # << >>
    /\ ctx_last.op = "submit_order"
    /\ ctx_last.result[1] = "RiskRejected"
    /\ ctx_last.result[2][1].policy = "PositionLimit"
    /\ PositionSize(ctx_last.order.market) = 1
    /\ ctx_orders # << >>

\* C27: after any sequence of update_position calls every position whose
\* size is 0 has entry_price 0; in particular an update that sells (or buys
\* back) the whole size of a position leaves size 0 and entry_price 0.
C27_FlatHasNoEntryPrice ==
    /\ [](\A m \in DOMAIN ctx_positions :
            ctx_positions[m].size = 0
                => ctx_positions[m].entry_price = FracOf(0))
    /\ [][CtxCalled("update_position")
            /\ ctx_last'.size_delta = -PositionSize(ctx_last'.market_id)
          => /\ ctx_positions'[ctx_last'.market_id].size = 0
             /\ ctx_positions'[ctx_last'.market_id].entry_price
                    = FracOf(0)]_vars

\* two buys of 1 and then a sell of the 2
C27_Witness ==
    /\ ctx_last # << >>
    /\ ctx_last.op = "update_position"
    /\ ctx_last.size_delta = -2
    /\ ctx_calls = 3
    /\ ctx_positions[ctx_last.market_id].size = 0
    /\ DOMAIN ctx_positions = {ctx_last.market_id}

\* C28: after any sequence of update_position calls with positive fill
\* prices, buys and sells in any mix with partial reductions and reversals,
\* the entry price of every position is >= 0.
C28_EntryPriceNotNegative ==
    \A m \in DOMAIN ctx_positions : ctx_positions[m].entry_price[1] >= 0

\* ----------------------------------------------- claims, the kill switch
\* the call of task t has passed its risk evaluation, which allowed it
Allowed(t) ==
    /\ task[t].op = "submit_order"
    /\ task[t].pc \in {"lookup", "ratelimit", "track", "place", "ack"}
    /\ "risk_allowed" \in {task[t].trace[i] : i \in 1..Len(task[t].trace)}
KillSwitchRejection == <<"Err", "RiskRejected", <<KillSwitchActiveMsg>>>>

\* C29: triggering the kill switch affects only the evaluations that start
\* afterwards.  A submission whose evaluation returned allowed before the
\* trigger goes on as without it: the trigger leaves it where it is, it is
\* tracked and dispatched, and it is never rejected for risk.  A submission
\* whose evaluation starts while the switch is active is rejected with
\* ["KillSwitch (active)"] and is never tracked or dispatched.
C29_KillSwitchTiming ==
    [][/\ kill_switch_active' # kill_switch_active
            => task' = task /\ orders' = orders
       /\ \A t \in Calls :
            Allowed(t) /\ Moves(t) =>
                /\ task[t].pc = "track"
                       => /\ task'[t].pc = "place"
                          /\ task[t].id \in DOMAIN orders'
                /\ task[t].pc = "place" => task'[t].pc = "ack"
                /\ task'[t].pc = "done" /\ task'[t].result[1] = "Err"
                       => task'[t].result[2] # "RiskRejected"
       /\ \A t \in Calls :
            /\ task[t].op = "submit_order"
            /\ task[t].pc = "risk"
            /\ config.enable_risk_checks
            /\ kill_switch_active
            /\ Moves(t)
            => /\ task'[t].pc = "done"
               /\ task'[t].result = KillSwitchRejection
               /\ task'[t].trace = task[t].trace
               /\ orders' = orders
               /\ adapter_lock' = adapter_lock]_vars

\* with the switch active, one submission that was allowed before is at
\* the venue and another was rejected for the switch
C29_Witness ==
    /\ kill_switch_active
    /\ \E t, u \in Calls :
          /\ Allowed(t)
          /\ task[t].pc = "ack"
          /\ task[t].id \in DOMAIN orders
          /\ task[u].pc = "done"
          /\ task[u].result[1] = "Err"
          /\ task[u].result = KillSwitchRejection

\* ---------------------------------------------------- claims, the backtest
\* C30: backtest determinism: two runs of run_backtest with the same
\* configuration, the same strategy and the same tick stream produce the
\* same trade list and the same equity series.
C30_BacktestDeterministic ==
    \A i, j \in 1..Len(bt_results) : bt_results[i] = bt_results[j]

\* the price an order of its type must carry
PriceFitsType(order) ==
    /\ order.order_type \in {"Limit", "PostOnly"} =>
           order.price # None /\ Gt(order.price[1], 0)
    /\ order.order_type = "Market" => order.price = None

\* C31: with validation enabled, every order submit_order tracks or passes
\* to an adapter has a present, positive price if it is Limit or PostOnly
\* and no price if it is Market.
C31_ValidatedOrders ==
    config.enable_validation =>
        /\ \A id \in DOMAIN orders : PriceFitsType(orders[id])
        /\ \A t \in DOMAIN task :
               task[t].op = "submit_order" /\ task[t].pc \in {"place", "ack"}
                   => PriceFitsType(task[t].order)

\* what the validator is to accept
Acceptable(order) ==
    /\ Le(MinSize, order.size) /\ Le(order.size, MaxSize)
    /\ Gt(order.size, 0)
    /\ order.order_type \in {"Limit", "PostOnly"} =>
           /\ order.price # None
           /\ Gt(order.price[1], 0)
           /\ Le(MinPrice, order.price[1]) /\ Le(order.price[1], MaxPrice)
    /\ order.order_type = "Market" => order.price = None
    /\ order.market # "" /\ order.venue # ""

\* C32: validate returns Ok exactly for the orders whose size is within
\* [min_size, max_size] and positive, whose price (Limit, PostOnly) is
\* present, positive and within [min_price, max_price], or (Market) absent,
\* and whose market and venue are not empty; otherwise ValidationError.
C32_ValidateIff ==
    val_result # << >> =>
        /\ val_result[1] \in {"Ok", "ValidationError"}
        /\ val_result[1] = "Ok" <=> Acceptable(val_order)

\* the tick a call of the trace belongs to: the one of the last
\* on_market_tick before it
RECURSIVE TickAt(_)
TickAt(k) ==
    IF k = 0 THEN 0
    ELSE IF bt_trace[k][1] = "on_market_tick" THEN bt_trace[k][2]
    ELSE TickAt(k - 1)

\* what run_backtest may do next after the call at position k of its trace
MayFollow(k, next) ==
    LET call == bt_trace[k]
        i == TickAt(k)
        next_tick == next = <<"on_market_tick", i + 1>> /\ i < Len(bt_ticks)
        last_done == next = <<"shutdown">> /\ i = Len(bt_ticks)
        in_tick == \/ next[1] = "simulate_fill" /\ next[2] = i
                   \/ next = <<"equity", i>>
    IN  CASE call[1] = "initialize" -> next = <<"on_market_tick", 1>>
          [] call[1] = "on_market_tick" -> in_tick
          [] call[1] = "simulate_fill" ->
                 IF call[4] THEN next = <<"on_fill", i, call[3]>>
                 ELSE in_tick
          [] call[1] = "on_fill" -> in_tick
          [] call[1] = "equity" ->
                 IF i % TimerEvery = 0 THEN next = <<"on_timer">>
                 ELSE next_tick \/ last_done
          [] call[1] = "on_timer" -> next_tick \/ last_done
          [] OTHER -> FALSE

\* the calls of a run come in the order of run_backtest
InSequence ==
    /\ bt_trace # << >> => bt_trace[1] = <<"initialize">>
    /\ \A k \in 1..(Len(bt_trace) - 1) : MayFollow(k, bt_trace[k + 1])

\* the last run has returned
RunReturned == bt_run = IdleRun /\ bt_results # << >>
LastResult == bt_results[Len(bt_results)]
LastCall == bt_trace[Len(bt_trace)]

\* C33 as stated: run_backtest calls initialize once before any tick, takes
\* the ticks in order, per tick on_market_tick, then the simulator on the
\* open orders, on_fill for each fill, then one equity sample; on_timer
\* after every 100th tick and shutdown exactly once after the last tick.
C33_RunSequence ==
    /\ InSequence
    /\ RunReturned =>
           /\ bt_trace # << >>
           /\ LastCall = <<"shutdown">>
           /\ TickAt(Len(bt_trace)) = Len(bt_ticks)

\* C33, amended: the same order of calls holds for as long as the run goes
\* on; a run over at least one tick in which no callback returns Err ends
\* with shutdown after the equity sample of the last tick, a callback's Err
\* ends the run at that call, and an empty tick list ends it before
\* initialize.
C33_RunSequenceUnlessErr ==
    /\ InSequence
    /\ RunReturned =>
           CASE LastResult[1] = "Ok" ->
                    /\ LastCall = <<"shutdown">>
                    /\ TickAt(Len(bt_trace)) = Len(bt_ticks)
             [] LastResult[1] = "Err" ->
                    /\ LastCall[1] = LastResult[2]
                    /\ LastResult[2] = bt_fails
             [] OTHER -> bt_ticks = << >> /\ bt_trace = << >>

\* a run over more than a hundred ticks came back Ok, the timer having run
C33_Witness ==
    /\ RunReturned
    /\ LastResult[1] = "Ok"
    /\ \E k \in 1..Len(bt_trace) : bt_trace[k] = <<"on_timer">>
    /\ LastCall = <<"shutdown">>

\* the limit order's price reaches the other side of the quote
Crossing(order, tick) ==
    /\ order.price # None
    /\ IF order.side = "Buy"
       THEN tick.ask # None /\ order.price[1] >= tick.ask[1]
       ELSE tick.bid # None /\ order.price[1] <= tick.bid[1]

\* size * price * fee_bps / 10000
FeeAt(order, fee_bps) == Frac(order.size * order.price[1] * fee_bps, 10000)

\* C34: the simulator fills an order completely or not at all; a Market order
\* always fills; a crossing Limit order always fills at its price with the
\* taker fee; a Limit order at rest fills, at its price with the maker fee,
\* only when the random trial succeeds; Stop and StopLimit orders never fill.
C34_FillRules ==
    sim_result # << >> =>
        LET order == sim_order
            fill == sim_result.fill
        IN  /\ fill # None => fill[1].size = order.size
            /\ order.order_type = "Market" => fill # None
            /\ order.order_type = "Limit" /\ Crossing(order, sim_tick) =>
                   /\ fill # None
                   /\ fill[1].price = order.price[1]
                   /\ fill[1].fee = FeeAt(order, bt_config.taker_fee_bps)
            /\ order.order_type = "Limit" /\ ~Crossing(order, sim_tick) =>
                   /\ fill # None =>
                          /\ ~sim_result.rand_above
                          /\ fill[1].price = order.price[1]
                          /\ fill[1].fee =
                                 FeeAt(order, bt_config.maker_fee_bps)
                   /\ order.price # None /\ ~sim_result.rand_above =>
                          fill # None
            /\ order.order_type \in {"Stop", "StopLimit"} => fill = None

\* a limit order at rest was filled as a maker, the trial having succeeded
C34_Witness ==
    /\ sim_result # << >>
    /\ sim_order.order_type = "Limit"
    /\ ~Crossing(sim_order, sim_tick)
    /\ sim_result.fill # None
    /\ sim_result.fill[1].fee = FeeAt(sim_order, bt_config.maker_fee_bps)
    /\ bt_config.fill_probability < 100

\* the simulate_fill calls of the last run that produced a fill for the
\* order kept under this key in ctx.orders
FillsOf(key) ==
    {k \in 1..Len(bt_trace) :
        /\ bt_trace[k][1] = "simulate_fill"
        /\ bt_trace[k][3] = key
        /\ bt_trace[k][4]}

\* the keys of the orders the last run offered to the simulator
OfferedKeys ==
    {bt_trace[k][3] : k \in {j \in 1..Len(bt_trace) :
                                bt_trace[j][1] = "simulate_fill"}}

\* C35: in a backtest run an order the simulator has filled is removed from
\* the context's open orders: it is not offered to the simulator on a later
\* tick and produces no more than one fill.
C35_FilledOrderRemoved ==
    \A key \in OfferedKeys :
        /\ Cardinality(FillsOf(key)) <= 1
        /\ FillsOf(key) # {} /\ bt_run.pc # "idle" =>
               key \notin DOMAIN bt_run.ctx.orders

\* C36: after on_market_tick(m) has requoted, the context's open orders for
\* m are only the quotes submitted in that call, at most one Buy and one
\* Sell, every order open for m before the call having been cancelled.
C36_CancelBeforeRequote ==
    ctx_last.op = "on_market_tick" /\ ctx_last.requoted =>
        LET open == {k \in DOMAIN ctx_orders :
                        ctx_orders[k].market = ctx_last.market_id}
        IN  /\ open = ctx_last.submitted
            /\ ctx_last.before \cap DOMAIN ctx_orders = {}
            /\ \A side \in {"Buy", "Sell"} :
                   Cardinality({k \in open : ctx_orders[k].side = side}) <= 1

\* the operation of task t waits for a lock another task holds
LockWaiting(t) == AtStep(t)[1] = "acquire" /\ ~LockFree(AtStep(t)[2])

\* some tasks wait, each for a lock that one of them holds
WaitCycle ==
    \E S \in (SUBSET LockCalls) \ {{}} :
        \A t \in S :
            /\ LockWaiting(t)
            /\ \E u \in S : AtStep(t)[2] \in Held(u)

\* C37: no deadlock: under any interleaving of concurrent submit_order,
\* cancel_order, get_status and record_fill tasks on one engine no tasks
\* wait on locks held by each other, and every task eventually completes.
C37_NoDeadlock ==
    /\ []~WaitCycle
    /\ \A t \in Tasks :
           (t \in LockCalls /\ lock_call[t].op # "idle")
               ~> (lock_call[t].op = "idle")

\* a task waits for the adapter while another, holding it, is at the tracker
C37_Witness ==
    \E t, u \in LockCalls :
        /\ LockWaiting(t)
        /\ AtStep(t)[2] = "adapter"
        /\ "adapter" \in Held(u)
        /\ AtStep(u) = Acquire("order_tracker")

\* C38: with risk checks on and a position limit on the market, when every
\* order enters through submit_order and no order is filled beyond its
\* size, the ledger's position never goes past the limit.
C38_PositionWithinLimit ==
    config.enable_risk_checks =>
        \A m \in DOMAIN positions : Abs(get_position(m)) <= MaxPosition

\* C39: the tracker's order map and fill map agree in every state, also
\* between the steps of a record_fill: for every tracked order, first
\* tracked with filled_size 0, the sizes of get_fills(id) add up to the
\* order's filled_size.
C39_FillsMatchFilledSize ==
    \A id \in DOMAIN orders :
        SumSeq(GetOr(fills, id, << >>)) = orders[id].filled_size

\* the metrics in a sequence of metric points
StRange(batch) == {batch[i] : i \in 1..Len(batch)}

\* C40: no accepted metric is lost: whenever no flush is between its two
\* steps, every metric for which buffer_metric returned Ok is still in the
\* buffer or in the table (its batch was inserted); a flush_buffer whose
\* insert failed has left its metrics in the buffer.
C40_NoAcceptedMetricLost ==
    st_flush = << >> =>
        st_accepted \subseteq (StRange(st_buffer) \cup st_db)

====
